---- MODULE Spec2Model ----
(***************************************************************************)
(* LAB Product Validation Workflow: the generation pipeline of scripts/.   *)
(*                                                                         *)
(* Each generator is one linear pass: load the configuration, build one    *)
(* element tree per record, serialize it, write <output>/<name>.xml.  The  *)
(* model keeps the Python values of the configuration (mappings, lists,    *)
(* strings, numbers, None) so that every .get, membership test, iteration  *)
(* and subscript of the builders is translated with the exception it can   *)
(* raise.  Text is a sequence of tokens; the XML special characters        *)
(* & < > " - are tokens of their own, so escaping is modelled by what it   *)
(* does to them.                                                           *)
(*                                                                         *)
(* The specifications share the variables: Spec (one run of a generator),  *)
(* SpecBuild (one record built twice), SpecPackage (one run of the         *)
(* packager), SpecValidate (one run of the validator), SpecWorkflow (runs  *)
(* of the default workflow definition, read as a transition system) and    *)
(* SpecRuns (runs of the two generators that write enumerations/, one      *)
(* after the other into one output root).                                  *)
(***************************************************************************)
EXTENDS Integers, Sequences, FiniteSets, TLC

(***************************************************************************)
(* Bounds of the model.                                                    *)
(***************************************************************************)
\* Longest list of records in a configuration drawn by Init.
MaxRecords == 2
\* Longest free text drawn for a field value by InitBuild.
MaxTextLen == 2
\* Last second of the wall clock (datetime.now() at one-second resolution).
MaxClock == 1
\* Number of runs of the workflow that are under way together.
MaxRuns == 2
\* Longest sequence of generator runs into one output root.
MaxSequence == 6

(***************************************************************************)
(* Python values as yaml.safe_load returns them.  v is always a sequence:  *)
(* tokens (str), one number (int), items (list), key/value pairs (dict).   *)
(***************************************************************************)
PyStr(s) == [t |-> "str", v |-> s]
PyInt(n) == [t |-> "int", v |-> <<n>>]
PyNone == [t |-> "none", v |-> <<>>]
PyList(s) == [t |-> "list", v |-> s]
KV(k, x) == [k |-> k, x |-> x]
PyDict(s) == [t |-> "dict", v |-> s]

IsStr(x) == x.t = "str"
IsDict(x) == x.t = "dict"
IsList(x) == x.t = "list"

\* key in d, for a mapping d
Has(d, key) == IsDict(d) /\ \E i \in 1..Len(d.v) : d.v[i].k = key
\* d[key], for a mapping d that has the key
Item(d, key) == d.v[CHOOSE i \in 1..Len(d.v) : d.v[i].k = key].x
\* d.get(key, default), for a mapping d
Get(d, key, default) == IF Has(d, key) THEN Item(d, key) ELSE default

\* bool(x)
Truthy(x) ==
  CASE x.t = "none" -> FALSE
    [] x.t = "int" -> x.v[1] # 0
    [] OTHER -> Len(x.v) > 0

\* iter(x) succeeds: a list, a string (its characters) or a mapping (its keys)
Iterable(x) == x.t \in {"list", "str", "dict"}
\* the items a for loop over x visits
Items(x) ==
  CASE x.t = "list" -> x.v
    [] x.t = "str" -> [i \in 1..Len(x.v) |-> PyStr(<<x.v[i]>>)]
    [] x.t = "dict" -> [i \in 1..Len(x.v) |-> PyStr(<<x.v[i].k>>)]
    [] OTHER -> <<>>
\* len(x) succeeds
Sized(x) == x.t \in {"list", "str", "dict"}
\* key in x, for any x that supports the test: a mapping (its keys), a list
\* (its items), a string (a substring; here a whole token)
Contains(x, key) ==
  CASE x.t = "dict" -> Has(x, key)
    [] x.t = "list" -> \E i \in 1..Len(x.v) : x.v[i] = PyStr(<<key>>)
    [] x.t = "str" -> \E i \in 1..Len(x.v) : x.v[i] = key
    [] OTHER -> FALSE
SupportsIn(x) == x.t \in {"list", "str", "dict"}

\* str(x) as an f-string formats it.  A list or mapping formats as its repr,
\* kept as one opaque token.
StrOf(x) ==
  CASE x.t = "str" -> x.v
    [] x.t = "int" -> <<ToString(x.v[1])>>
    [] x.t = "none" -> <<"None">>
    [] OTHER -> <<"repr">>

\* sep.join(xs) of a sequence of strings
RECURSIVE JoinFrom(_, _, _)
JoinFrom(xs, i, sep) ==
  IF i > Len(xs) THEN <<>>
  ELSE IF i = Len(xs) THEN xs[i].v
  ELSE xs[i].v \o <<sep>> \o JoinFrom(xs, i + 1, sep)
\* ', '.join(x) raises TypeError unless x is iterable and yields only strings
Joinable(x) == Iterable(x) /\ \A i \in 1..Len(Items(x)) : IsStr(Items(x)[i])
Join(x) == JoinFrom(Items(x), 1, ", ")

\* the concatenation of a sequence of sequences
RECURSIVE Flatten(_)
Flatten(ss) == IF ss = <<>> THEN <<>> ELSE Head(ss) \o Flatten(Tail(ss))

get_default_enumerations_config ==
  PyDict(<<KV("enumerations", PyList(<<
        PyDict(<<KV("name", PyStr(<<"WorkflowStage">>)),
            KV("description", PyStr(<<"Stages in the LAB product validation workflow">>)),
            KV("values", PyList(<<
              PyDict(<<KV("name", PyStr(<<"ImageAcquisition">>)),
                  KV("caption", PyStr(<<"Image Acquisition">>)),
                  KV("description", PyStr(<<"Initial image capture phase">>))>>),
              PyDict(<<KV("name", PyStr(<<"QualityValidation">>)),
                  KV("caption", PyStr(<<"Quality Validation">>)),
                  KV("description", PyStr(<<"Critical quality assessment phase">>))>>),
              PyDict(<<KV("name", PyStr(<<"DetailedAcquisition">>)),
                  KV("caption", PyStr(<<"Detailed Acquisition">>)),
                  KV("description", PyStr(<<"Enhanced image processing phase">>))>>),
              PyDict(<<KV("name", PyStr(<<"Analysis">>)),
                  KV("caption", PyStr(<<"Analysis">>)),
                  KV("description", PyStr(<<"Automated image analysis phase">>))>>),
              PyDict(<<KV("name", PyStr(<<"KPIExtraction">>)),
                  KV("caption", PyStr(<<"KPI Extraction">>)),
                  KV("description", PyStr(<<"Performance indicators extraction phase">>))>>),
              PyDict(<<KV("name", PyStr(<<"LABValidation">>)),
                  KV("caption", PyStr(<<"LAB Validation">>)),
                  KV("description", PyStr(<<"Final human validation phase">>))>>),
              PyDict(<<KV("name", PyStr(<<"ReportGeneration">>)),
                  KV("caption", PyStr(<<"Report Generation">>)),
                  KV("description", PyStr(<<"Comprehensive report creation phase">>))>>),
              PyDict(<<KV("name", PyStr(<<"Completed">>)),
                  KV("caption", PyStr(<<"Completed">>)),
                  KV("description", PyStr(<<"Workflow successfully completed">>))>>)>>))>>),
        PyDict(<<KV("name", PyStr(<<"ProcessingStatus">>)),
            KV("description", PyStr(<<"Status of image processing and analysis tasks">>)),
            KV("values", PyList(<<
              PyDict(<<KV("name", PyStr(<<"Pending">>)),
                  KV("caption", PyStr(<<"Pending">>)),
                  KV("description", PyStr(<<"Task is waiting to be processed">>))>>),
              PyDict(<<KV("name", PyStr(<<"InProgress">>)),
                  KV("caption", PyStr(<<"In Progress">>)),
                  KV("description", PyStr(<<"Task is currently being processed">>))>>),
              PyDict(<<KV("name", PyStr(<<"Completed">>)),
                  KV("caption", PyStr(<<"Completed">>)),
                  KV("description", PyStr(<<"Task has been successfully completed">>))>>),
              PyDict(<<KV("name", PyStr(<<"Failed">>)),
                  KV("caption", PyStr(<<"Failed">>)),
                  KV("description", PyStr(<<"Task processing has failed">>))>>),
              PyDict(<<KV("name", PyStr(<<"RequiresReview">>)),
                  KV("caption", PyStr(<<"Requires Review">>)),
                  KV("description", PyStr(<<"Task needs manual review">>))>>),
              PyDict(<<KV("name", PyStr(<<"Cancelled">>)),
                  KV("caption", PyStr(<<"Cancelled">>)),
                  KV("description", PyStr(<<"Task has been cancelled">>))>>)>>))>>),
        PyDict(<<KV("name", PyStr(<<"ValidationOutcome">>)),
            KV("description", PyStr(<<"Final validation decision outcomes">>)),
            KV("values", PyList(<<
              PyDict(<<KV("name", PyStr(<<"Approved">>)),
                  KV("caption", PyStr(<<"Approved">>)),
                  KV("description", PyStr(<<"Validation passed ", "-", " product approved">>))>>),
              PyDict(<<KV("name", PyStr(<<"Rejected">>)),
                  KV("caption", PyStr(<<"Rejected">>)),
                  KV("description", PyStr(<<"Validation failed ", "-", " product rejected">>))>>),
              PyDict(<<KV("name", PyStr(<<"Pending">>)),
                  KV("caption", PyStr(<<"Pending">>)),
                  KV("description", PyStr(<<"Validation decision is pending">>))>>),
              PyDict(<<KV("name", PyStr(<<"RequiresRework">>)),
                  KV("caption", PyStr(<<"Requires Rework">>)),
                  KV("description", PyStr(<<"Product needs additional work">>))>>),
              PyDict(<<KV("name", PyStr(<<"ConditionalApproval">>)),
                  KV("caption", PyStr(<<"Conditional Approval">>)),
                  KV("description", PyStr(<<"Approved with conditions">>))>>),
              PyDict(<<KV("name", PyStr(<<"Escalated">>)),
                  KV("caption", PyStr(<<"Escalated">>)),
                  KV("description", PyStr(<<"Decision escalated to higher authority">>))>>)>>))>>),
        PyDict(<<KV("name", PyStr(<<"ReportFormat">>)),
            KV("description", PyStr(<<"Available formats for validation reports">>)),
            KV("values", PyList(<<
              PyDict(<<KV("name", PyStr(<<"PDF">>)),
                  KV("caption", PyStr(<<"PDF">>)),
                  KV("description", PyStr(<<"Portable Document Format">>))>>),
              PyDict(<<KV("name", PyStr(<<"HTML">>)),
                  KV("caption", PyStr(<<"HTML">>)),
                  KV("description", PyStr(<<"Web page format">>))>>),
              PyDict(<<KV("name", PyStr(<<"JSON">>)),
                  KV("caption", PyStr(<<"JSON">>)),
                  KV("description", PyStr(<<"JavaScript Object Notation">>))>>),
              PyDict(<<KV("name", PyStr(<<"XML">>)),
                  KV("caption", PyStr(<<"XML">>)),
                  KV("description", PyStr(<<"Extensible Markup Language">>))>>),
              PyDict(<<KV("name", PyStr(<<"Excel">>)),
                  KV("caption", PyStr(<<"Excel">>)),
                  KV("description", PyStr(<<"Microsoft Excel spreadsheet">>))>>),
              PyDict(<<KV("name", PyStr(<<"CSV">>)),
                  KV("caption", PyStr(<<"CSV">>)),
                  KV("description", PyStr(<<"Comma", "-", "separated values">>))>>)>>))>>),
        PyDict(<<KV("name", PyStr(<<"QualityLevel">>)),
            KV("description", PyStr(<<"Quality assessment levels for images and processes">>)),
            KV("values", PyList(<<
              PyDict(<<KV("name", PyStr(<<"Poor">>)),
                  KV("caption", PyStr(<<"Poor">>)),
                  KV("description", PyStr(<<"Quality is below acceptable standards">>))>>),
              PyDict(<<KV("name", PyStr(<<"Fair">>)),
                  KV("caption", PyStr(<<"Fair">>)),
                  KV("description", PyStr(<<"Quality meets minimum standards">>))>>),
              PyDict(<<KV("name", PyStr(<<"Good">>)),
                  KV("caption", PyStr(<<"Good">>)),
                  KV("description", PyStr(<<"Quality is good and acceptable">>))>>),
              PyDict(<<KV("name", PyStr(<<"VeryGood">>)),
                  KV("caption", PyStr(<<"Very Good">>)),
                  KV("description", PyStr(<<"Quality exceeds standard requirements">>))>>),
              PyDict(<<KV("name", PyStr(<<"Excellent">>)),
                  KV("caption", PyStr(<<"Excellent">>)),
                  KV("description", PyStr(<<"Quality is exceptional">>))>>),
              PyDict(<<KV("name", PyStr(<<"Outstanding">>)),
                  KV("caption", PyStr(<<"Outstanding">>)),
                  KV("description", PyStr(<<"Quality is the highest possible level">>))>>)>>))>>),
        PyDict(<<KV("name", PyStr(<<"TaskPriority">>)),
            KV("description", PyStr(<<"Priority levels for workflow tasks">>)),
            KV("values", PyList(<<
              PyDict(<<KV("name", PyStr(<<"Critical">>)),
                  KV("caption", PyStr(<<"Critical">>)),
                  KV("description", PyStr(<<"Highest priority ", "-", " immediate attention required">>))>>),
              PyDict(<<KV("name", PyStr(<<"High">>)),
                  KV("caption", PyStr(<<"High">>)),
                  KV("description", PyStr(<<"High priority ", "-", " urgent processing needed">>))>>),
              PyDict(<<KV("name", PyStr(<<"Medium">>)),
                  KV("caption", PyStr(<<"Medium">>)),
                  KV("description", PyStr(<<"Medium priority ", "-", " standard processing">>))>>),
              PyDict(<<KV("name", PyStr(<<"Low">>)),
                  KV("caption", PyStr(<<"Low">>)),
                  KV("description", PyStr(<<"Low priority ", "-", " can be processed when time allows">>))>>),
              PyDict(<<KV("name", PyStr(<<"Deferred">>)),
                  KV("caption", PyStr(<<"Deferred">>)),
                  KV("description", PyStr(<<"Processing has been postponed">>))>>)>>))>>),
        PyDict(<<KV("name", PyStr(<<"UserRole">>)),
            KV("description", PyStr(<<"User roles in the LAB validation system">>)),
            KV("values", PyList(<<
              PyDict(<<KV("name", PyStr(<<"LABAdmin">>)),
                  KV("caption", PyStr(<<"LAB Administrator">>)),
                  KV("description", PyStr(<<"Full system administration rights">>))>>),
              PyDict(<<KV("name", PyStr(<<"LABTechnician">>)),
                  KV("caption", PyStr(<<"LAB Technician">>)),
                  KV("description", PyStr(<<"Task execution and data entry">>))>>),
              PyDict(<<KV("name", PyStr(<<"LABViewer">>)),
                  KV("caption", PyStr(<<"LAB Viewer">>)),
                  KV("description", PyStr(<<"Read", "-", "only access to public information">>))>>),
              PyDict(<<KV("name", PyStr(<<"LABSupervisor">>)),
                  KV("caption", PyStr(<<"LAB Supervisor">>)),
                  KV("description", PyStr(<<"Supervisory oversight of technicians">>))>>),
              PyDict(<<KV("name", PyStr(<<"SystemAdmin">>)),
                  KV("caption", PyStr(<<"System Administrator">>)),
                  KV("description", PyStr(<<"Technical system administration">>))>>)>>))>>),
        PyDict(<<KV("name", PyStr(<<"AuditActionType">>)),
            KV("description", PyStr(<<"Types of actions recorded in the audit trail">>)),
            KV("values", PyList(<<
              PyDict(<<KV("name", PyStr(<<"Create">>)),
                  KV("caption", PyStr(<<"Create">>)),
                  KV("description", PyStr(<<"Entity was created">>))>>),
              PyDict(<<KV("name", PyStr(<<"Update">>)),
                  KV("caption", PyStr(<<"Update">>)),
                  KV("description", PyStr(<<"Entity was modified">>))>>),
              PyDict(<<KV("name", PyStr(<<"Delete">>)),
                  KV("caption", PyStr(<<"Delete">>)),
                  KV("description", PyStr(<<"Entity was deleted">>))>>),
              PyDict(<<KV("name", PyStr(<<"View">>)),
                  KV("caption", PyStr(<<"View">>)),
                  KV("description", PyStr(<<"Entity was accessed for viewing">>))>>),
              PyDict(<<KV("name", PyStr(<<"Export">>)),
                  KV("caption", PyStr(<<"Export">>)),
                  KV("description", PyStr(<<"Data was exported">>))>>),
              PyDict(<<KV("name", PyStr(<<"Import">>)),
                  KV("caption", PyStr(<<"Import">>)),
                  KV("description", PyStr(<<"Data was imported">>))>>),
              PyDict(<<KV("name", PyStr(<<"Approve">>)),
                  KV("caption", PyStr(<<"Approve">>)),
                  KV("description", PyStr(<<"Approval action was taken">>))>>),
              PyDict(<<KV("name", PyStr(<<"Reject">>)),
                  KV("caption", PyStr(<<"Reject">>)),
                  KV("description", PyStr(<<"Rejection action was taken">>))>>),
              PyDict(<<KV("name", PyStr(<<"Assign">>)),
                  KV("caption", PyStr(<<"Assign">>)),
                  KV("description", PyStr(<<"Task or role was assigned">>))>>),
              PyDict(<<KV("name", PyStr(<<"Complete">>)),
                  KV("caption", PyStr(<<"Complete">>)),
                  KV("description", PyStr(<<"Task was completed">>))>>)>>))>>)>>))>>)

get_default_microflows_config ==
  PyDict(<<KV("microflows", PyList(<<
        PyDict(<<KV("name", PyStr(<<"ACT_CreateTask">>)),
            KV("type", PyStr(<<"action">>)),
            KV("description", PyStr(<<"Creates new task with proper assignment and initial status">>)),
            KV("parameters", PyList(<<
              PyDict(<<KV("name", PyStr(<<"TaskTitle">>)), KV("type", PyStr(<<"String">>))>>),
              PyDict(<<KV("name", PyStr(<<"AssignedUser">>)),
                  KV("type", PyStr(<<"Administration.Account">>))>>),
              PyDict(<<KV("name", PyStr(<<"WorkflowContext">>)),
                  KV("type", PyStr(<<"ProductValidation">>))>>)>>)),
            KV("return_type", PyStr(<<"System.WorkflowUserTask">>)),
            KV("security_roles", PyList(<<PyStr(<<"LABAdmin">>), PyStr(<<"LABTechnician">>)>>))>>),
        PyDict(<<KV("name", PyStr(<<"ACT_AssignTask">>)),
            KV("type", PyStr(<<"action">>)),
            KV("description", PyStr(<<"Assigns tasks to users based on role and workload">>)),
            KV("parameters", PyList(<<
              PyDict(<<KV("name", PyStr(<<"Task">>)), KV("type", PyStr(<<"System.WorkflowUserTask">>))>>),
              PyDict(<<KV("name", PyStr(<<"NewAssignee">>)),
                  KV("type", PyStr(<<"Administration.Account">>))>>)>>)),
            KV("return_type", PyStr(<<"Boolean">>)),
            KV("security_roles", PyList(<<PyStr(<<"LABAdmin">>)>>))>>),
        PyDict(<<KV("name", PyStr(<<"ACT_CompleteTask">>)),
            KV("type", PyStr(<<"action">>)),
            KV("description", PyStr(<<"Marks task as completed, triggers workflow progression">>)),
            KV("parameters", PyList(<<
              PyDict(<<KV("name", PyStr(<<"Task">>)), KV("type", PyStr(<<"System.WorkflowUserTask">>))>>),
              PyDict(<<KV("name", PyStr(<<"CompletionData">>)), KV("type", PyStr(<<"String">>))>>)>>)),
            KV("return_type", PyStr(<<"Boolean">>)),
            KV("security_roles", PyList(<<PyStr(<<"LABAdmin">>), PyStr(<<"LABTechnician">>)>>))>>),
        PyDict(<<KV("name", PyStr(<<"SUB_CheckUserPermissions">>)),
            KV("type", PyStr(<<"submicroflow">>)),
            KV("description", PyStr(<<"Validates user access rights for specific actions">>)),
            KV("parameters", PyList(<<
              PyDict(<<KV("name", PyStr(<<"User">>)), KV("type", PyStr(<<"Administration.Account">>))>>),
              PyDict(<<KV("name", PyStr(<<"RequiredRole">>)), KV("type", PyStr(<<"String">>))>>),
              PyDict(<<KV("name", PyStr(<<"EntityToAccess">>)), KV("type", PyStr(<<"String">>))>>)>>)),
            KV("return_type", PyStr(<<"Boolean">>)),
            KV("security_roles", PyList(<<PyStr(<<"LABAdmin">>), PyStr(<<"LABTechnician">>), PyStr(<<"LABViewer">>)>>))>>),
        PyDict(<<KV("name", PyStr(<<"ACT_ProcessImageQuality">>)),
            KV("type", PyStr(<<"action">>)),
            KV("description", PyStr(<<"Validates image quality and determines approval status">>)),
            KV("parameters", PyList(<<
              PyDict(<<KV("name", PyStr(<<"ImageAcquisition">>)),
                  KV("type", PyStr(<<"ImageAcquisition">>))>>),
              PyDict(<<KV("name", PyStr(<<"QualityThreshold">>)), KV("type", PyStr(<<"Decimal">>))>>)>>)),
            KV("return_type", PyStr(<<"Boolean">>)),
            KV("security_roles", PyList(<<PyStr(<<"LABAdmin">>), PyStr(<<"LABTechnician">>)>>))>>),
        PyDict(<<KV("name", PyStr(<<"DS_GetMyTasks">>)),
            KV("type", PyStr(<<"datasource">>)),
            KV("description", PyStr(<<"Returns tasks filtered by current user with XPath constraints">>)),
            KV("parameters", PyList(<<
              PyDict(<<KV("name", PyStr(<<"CurrentUser">>)),
                  KV("type", PyStr(<<"Administration.Account">>))>>)>>)),
            KV("return_type", PyStr(<<"List of System.WorkflowUserTask">>)),
            KV("security_roles", PyList(<<PyStr(<<"LABAdmin">>), PyStr(<<"LABTechnician">>)>>))>>),
        PyDict(<<KV("name", PyStr(<<"ACT_InitiateWorkflow">>)),
            KV("type", PyStr(<<"action">>)),
            KV("description", PyStr(<<"Initiates new LAB validation workflow instance">>)),
            KV("parameters", PyList(<<
              PyDict(<<KV("name", PyStr(<<"ProductID">>)), KV("type", PyStr(<<"String">>))>>),
              PyDict(<<KV("name", PyStr(<<"InitiatedBy">>)),
                  KV("type", PyStr(<<"Administration.Account">>))>>)>>)),
            KV("return_type", PyStr(<<"ProductValidation">>)),
            KV("security_roles", PyList(<<PyStr(<<"LABAdmin">>), PyStr(<<"LABTechnician">>)>>))>>),
        PyDict(<<KV("name", PyStr(<<"ACT_GenerateValidationReport">>)),
            KV("type", PyStr(<<"action">>)),
            KV("description", PyStr(<<"Generates comprehensive validation report">>)),
            KV("parameters", PyList(<<
              PyDict(<<KV("name", PyStr(<<"ProductValidation">>)),
                  KV("type", PyStr(<<"ProductValidation">>))>>)>>)),
            KV("return_type", PyStr(<<"ValidationReport">>)),
            KV("security_roles", PyList(<<PyStr(<<"LABAdmin">>), PyStr(<<"LABTechnician">>), PyStr(<<"LABViewer">>)>>))>>),
        PyDict(<<KV("name", PyStr(<<"ACT_UpdateAuditTrail">>)),
            KV("type", PyStr(<<"action">>)),
            KV("description", PyStr(<<"Records action in workflow audit trail">>)),
            KV("parameters", PyList(<<
              PyDict(<<KV("name", PyStr(<<"Action">>)), KV("type", PyStr(<<"String">>))>>),
              PyDict(<<KV("name", PyStr(<<"EntityChanged">>)), KV("type", PyStr(<<"String">>))>>),
              PyDict(<<KV("name", PyStr(<<"OldValue">>)), KV("type", PyStr(<<"String">>))>>),
              PyDict(<<KV("name", PyStr(<<"NewValue">>)), KV("type", PyStr(<<"String">>))>>)>>)),
            KV("return_type", PyStr(<<"WorkflowAuditTrail">>)),
            KV("security_roles", PyList(<<PyStr(<<"LABAdmin">>), PyStr(<<"LABTechnician">>)>>))>>),
        PyDict(<<KV("name", PyStr(<<"ACT_ValidateWorkflowOutcome">>)),
            KV("type", PyStr(<<"action">>)),
            KV("description", PyStr(<<"Critical TRUE/FALSE decision point for workflow progression">>)),
            KV("parameters", PyList(<<
              PyDict(<<KV("name", PyStr(<<"ProductValidation">>)),
                  KV("type", PyStr(<<"ProductValidation">>))>>),
              PyDict(<<KV("name", PyStr(<<"ValidationCriteria">>)), KV("type", PyStr(<<"String">>))>>)>>)),
            KV("return_type", PyStr(<<"Boolean">>)),
            KV("security_roles", PyList(<<PyStr(<<"LABAdmin">>)>>))>>)>>))>>)

get_default_pages_config ==
  PyDict(<<KV("pages", PyList(<<
        PyDict(<<KV("name", PyStr(<<"WorkflowAdminCenter">>)),
            KV("type", PyStr(<<"admin_dashboard">>)),
            KV("description", PyStr(<<"Central administration hub for workflow management">>)),
            KV("security_roles", PyList(<<PyStr(<<"LABAdmin">>)>>)),
            KV("layout", PyStr(<<"Dashboard">>)),
            KV("components", PyList(<<
              PyDict(<<KV("type", PyStr(<<"DataGrid">>)),
                  KV("entity", PyStr(<<"System.Workflow">>)),
                  KV("title", PyStr(<<"All Workflows">>))>>),
              PyDict(<<KV("type", PyStr(<<"DataGrid">>)),
                  KV("entity", PyStr(<<"System.WorkflowUserTask">>)),
                  KV("title", PyStr(<<"All Tasks">>))>>),
              PyDict(<<KV("type", PyStr(<<"ActionButton">>)),
                  KV("action", PyStr(<<"ACT_AssignTask">>)),
                  KV("title", PyStr(<<"Reassign Task">>))>>),
              PyDict(<<KV("type", PyStr(<<"Chart">>)),
                  KV("data", PyStr(<<"WorkflowMetrics">>)),
                  KV("title", PyStr(<<"Workflow Performance">>))>>)>>))>>),
        PyDict(<<KV("name", PyStr(<<"TaskInbox">>)),
            KV("type", PyStr(<<"user_dashboard">>)),
            KV("description", PyStr(<<"Personal task management interface for users">>)),
            KV("security_roles", PyList(<<PyStr(<<"LABTechnician">>)>>)),
            KV("layout", PyStr(<<"TaskManagement">>)),
            KV("components", PyList(<<
              PyDict(<<KV("type", PyStr(<<"DataGrid">>)),
                  KV("entity", PyStr(<<"System.WorkflowUserTask">>)),
                  KV("title", PyStr(<<"My Tasks">>)),
                  KV("constraint", PyStr(<<"[AssignedTo = $currentUser]">>))>>),
              PyDict(<<KV("type", PyStr(<<"ActionButton">>)),
                  KV("action", PyStr(<<"ACT_CompleteTask">>)),
                  KV("title", PyStr(<<"Complete Task">>))>>),
              PyDict(<<KV("type", PyStr(<<"FormView">>)),
                  KV("entity", PyStr(<<"ProductValidation">>)),
                  KV("title", PyStr(<<"Task Details">>))>>)>>))>>),
        PyDict(<<KV("name", PyStr(<<"TaskDashboard">>)),
            KV("type", PyStr(<<"user_dashboard">>)),
            KV("description", PyStr(<<"Personal performance metrics and task history">>)),
            KV("security_roles", PyList(<<PyStr(<<"LABTechnician">>)>>)),
            KV("layout", PyStr(<<"Dashboard">>)),
            KV("components", PyList(<<
              PyDict(<<KV("type", PyStr(<<"Chart">>)),
                  KV("data", PyStr(<<"MyTaskMetrics">>)),
                  KV("title", PyStr(<<"My Performance">>))>>),
              PyDict(<<KV("type", PyStr(<<"DataGrid">>)),
                  KV("entity", PyStr(<<"System.WorkflowEndedUserTask">>)),
                  KV("title", PyStr(<<"Completed Tasks">>)),
                  KV("constraint", PyStr(<<"[CompletedBy = $currentUser]">>))>>),
              PyDict(<<KV("type", PyStr(<<"StatCard">>)),
                  KV("metric", PyStr(<<"TasksCompleted">>)),
                  KV("title", PyStr(<<"Tasks Completed This Week">>))>>)>>))>>),
        PyDict(<<KV("name", PyStr(<<"PublicDashboard">>)),
            KV("type", PyStr(<<"viewer_dashboard">>)),
            KV("description", PyStr(<<"Read", "-", "only dashboard for public workflow information">>)),
            KV("security_roles", PyList(<<PyStr(<<"LABViewer">>)>>)),
            KV("layout", PyStr(<<"ReadOnlyDashboard">>)),
            KV("components", PyList(<<
              PyDict(<<KV("type", PyStr(<<"Chart">>)),
                  KV("data", PyStr(<<"PublicWorkflowMetrics">>)),
                  KV("title", PyStr(<<"Workflow Statistics">>))>>),
              PyDict(<<KV("type", PyStr(<<"DataGrid">>)),
                  KV("entity", PyStr(<<"ValidationReport">>)),
                  KV("title", PyStr(<<"Public Reports">>)),
                  KV("constraint", PyStr(<<"[IsPublic = true]">>))>>),
              PyDict(<<KV("type", PyStr(<<"StatCard">>)),
                  KV("metric", PyStr(<<"TotalWorkflows">>)),
                  KV("title", PyStr(<<"Total Workflows">>))>>)>>))>>),
        PyDict(<<KV("name", PyStr(<<"ImageAcquisitionTask">>)),
            KV("type", PyStr(<<"task_page">>)),
            KV("description", PyStr(<<"Specialized page for image capture and quality validation">>)),
            KV("security_roles", PyList(<<PyStr(<<"LABTechnician">>)>>)),
            KV("layout", PyStr(<<"TaskForm">>)),
            KV("components", PyList(<<
              PyDict(<<KV("type", PyStr(<<"ImageUploader">>)),
                  KV("entity", PyStr(<<"ImageAcquisition">>)),
                  KV("field", PyStr(<<"ImageFile">>)),
                  KV("title", PyStr(<<"Upload Image">>))>>),
              PyDict(<<KV("type", PyStr(<<"FormView">>)),
                  KV("entity", PyStr(<<"ImageAcquisition">>)),
                  KV("title", PyStr(<<"Image Details">>))>>),
              PyDict(<<KV("type", PyStr(<<"ActionButton">>)),
                  KV("action", PyStr(<<"ACT_ProcessImageQuality">>)),
                  KV("title", PyStr(<<"Validate Quality">>))>>),
              PyDict(<<KV("type", PyStr(<<"ConditionalView">>)),
                  KV("condition", PyStr(<<"IsQualityApproved">>)),
                  KV("title", PyStr(<<"Quality Status">>))>>)>>))>>),
        PyDict(<<KV("name", PyStr(<<"DetailedImageAcquisitionTask">>)),
            KV("type", PyStr(<<"task_page">>)),
            KV("description", PyStr(<<"Enhanced image processing and analysis interface">>)),
            KV("security_roles", PyList(<<PyStr(<<"LABTechnician">>)>>)),
            KV("layout", PyStr(<<"TaskForm">>)),
            KV("components", PyList(<<
              PyDict(<<KV("type", PyStr(<<"ImageViewer">>)),
                  KV("entity", PyStr(<<"DetailedImageAcquisition">>)),
                  KV("field", PyStr(<<"EnhancedImageFile">>)),
                  KV("title", PyStr(<<"Enhanced Image">>))>>),
              PyDict(<<KV("type", PyStr(<<"FormView">>)),
                  KV("entity", PyStr(<<"DetailedImageAcquisition">>)),
                  KV("title", PyStr(<<"Processing Details">>))>>),
              PyDict(<<KV("type", PyStr(<<"TextArea">>)),
                  KV("field", PyStr(<<"ProcessingNotes">>)),
                  KV("title", PyStr(<<"Processing Notes">>))>>),
              PyDict(<<KV("type", PyStr(<<"ActionButton">>)),
                  KV("action", PyStr(<<"ACT_CompleteTask">>)),
                  KV("title", PyStr(<<"Complete Processing">>))>>)>>))>>),
        PyDict(<<KV("name", PyStr(<<"ValidationResultPage">>)),
            KV("type", PyStr(<<"task_page">>)),
            KV("description", PyStr(<<"Final validation decision interface">>)),
            KV("security_roles", PyList(<<PyStr(<<"LABAdmin">>)>>)),
            KV("layout", PyStr(<<"ValidationForm">>)),
            KV("components", PyList(<<
              PyDict(<<KV("type", PyStr(<<"FormView">>)),
                  KV("entity", PyStr(<<"ValidationResult">>)),
                  KV("title", PyStr(<<"Validation Decision">>))>>),
              PyDict(<<KV("type", PyStr(<<"DropDown">>)),
                  KV("field", PyStr(<<"Result">>)),
                  KV("enumeration", PyStr(<<"ValidationOutcome">>)),
                  KV("title", PyStr(<<"Final Decision">>))>>),
              PyDict(<<KV("type", PyStr(<<"TextArea">>)),
                  KV("field", PyStr(<<"Comments">>)),
                  KV("title", PyStr(<<"Validation Comments">>))>>),
              PyDict(<<KV("type", PyStr(<<"ActionButton">>)),
                  KV("action", PyStr(<<"ACT_ValidateWorkflowOutcome">>)),
                  KV("title", PyStr(<<"Submit Decision">>))>>)>>))>>),
        PyDict(<<KV("name", PyStr(<<"ReportGenerationPage">>)),
            KV("type", PyStr(<<"report_page">>)),
            KV("description", PyStr(<<"Comprehensive report generation and viewing">>)),
            KV("security_roles", PyList(<<PyStr(<<"LABAdmin">>), PyStr(<<"LABTechnician">>), PyStr(<<"LABViewer">>)>>)),
            KV("layout", PyStr(<<"ReportLayout">>)),
            KV("components", PyList(<<
              PyDict(<<KV("type", PyStr(<<"FormView">>)),
                  KV("entity", PyStr(<<"ValidationReport">>)),
                  KV("title", PyStr(<<"Report Configuration">>))>>),
              PyDict(<<KV("type", PyStr(<<"DropDown">>)),
                  KV("field", PyStr(<<"ReportFormat">>)),
                  KV("enumeration", PyStr(<<"ReportFormat">>)),
                  KV("title", PyStr(<<"Report Format">>))>>),
              PyDict(<<KV("type", PyStr(<<"ActionButton">>)),
                  KV("action", PyStr(<<"ACT_GenerateValidationReport">>)),
                  KV("title", PyStr(<<"Generate Report">>))>>),
              PyDict(<<KV("type", PyStr(<<"FileDownloader">>)),
                  KV("field", PyStr(<<"ReportFile">>)),
                  KV("title", PyStr(<<"Download Report">>))>>)>>))>>),
        PyDict(<<KV("name", PyStr(<<"AuditTrailViewer">>)),
            KV("type", PyStr(<<"admin_page">>)),
            KV("description", PyStr(<<"Complete audit trail viewer for compliance tracking">>)),
            KV("security_roles", PyList(<<PyStr(<<"LABAdmin">>)>>)),
            KV("layout", PyStr(<<"AuditLayout">>)),
            KV("components", PyList(<<
              PyDict(<<KV("type", PyStr(<<"DataGrid">>)),
                  KV("entity", PyStr(<<"WorkflowAuditTrail">>)),
                  KV("title", PyStr(<<"Audit Trail">>))>>),
              PyDict(<<KV("type", PyStr(<<"SearchBox">>)),
                  KV("target", PyStr(<<"AuditTrail">>)),
                  KV("title", PyStr(<<"Search Actions">>))>>),
              PyDict(<<KV("type", PyStr(<<"DatePicker">>)),
                  KV("field", PyStr(<<"ActionDate">>)),
                  KV("title", PyStr(<<"Filter by Date">>))>>),
              PyDict(<<KV("type", PyStr(<<"ExportButton">>)),
                  KV("data", PyStr(<<"AuditTrail">>)),
                  KV("title", PyStr(<<"Export Audit Log">>))>>)>>))>>),
        PyDict(<<KV("name", PyStr(<<"UserManagement">>)),
            KV("type", PyStr(<<"admin_page">>)),
            KV("description", PyStr(<<"User and role management interface">>)),
            KV("security_roles", PyList(<<PyStr(<<"LABAdmin">>)>>)),
            KV("layout", PyStr(<<"UserManagement">>)),
            KV("components", PyList(<<
              PyDict(<<KV("type", PyStr(<<"DataGrid">>)),
                  KV("entity", PyStr(<<"Administration.Account">>)),
                  KV("title", PyStr(<<"Users">>))>>),
              PyDict(<<KV("type", PyStr(<<"FormView">>)),
                  KV("entity", PyStr(<<"Administration.Account">>)),
                  KV("title", PyStr(<<"User Details">>))>>),
              PyDict(<<KV("type", PyStr(<<"RoleSelector">>)),
                  KV("field", PyStr(<<"UserRoles">>)),
                  KV("title", PyStr(<<"Assign Roles">>))>>),
              PyDict(<<KV("type", PyStr(<<"ActionButton">>)),
                  KV("action", PyStr(<<"ACT_UpdateUserRoles">>)),
                  KV("title", PyStr(<<"Update Roles">>))>>)>>))>>)>>))>>)

get_default_security_config ==
  PyDict(<<KV("security_roles", PyList(<<
        PyDict(<<KV("name", PyStr(<<"LABAdmin">>)),
            KV("description", PyStr(<<"Full system administration and workflow management">>)),
            KV("permissions", PyDict(<<KV("entity_access", PyDict(<<KV("ProductValidation", PyStr(<<"CRUD">>)),
                    KV("ImageAcquisition", PyStr(<<"CRUD">>)),
                    KV("DetailedImageAcquisition", PyStr(<<"CRUD">>)),
                    KV("ImageAnalysis", PyStr(<<"CRUD">>)),
                    KV("KPIExtraction", PyStr(<<"CRUD">>)),
                    KV("ValidationResult", PyStr(<<"CRUD">>)),
                    KV("ValidationReport", PyStr(<<"CRUD">>)),
                    KV("WorkflowAuditTrail", PyStr(<<"CRUD">>)),
                    KV("System.WorkflowUserTask", PyStr(<<"CRUD">>)),
                    KV("System.Workflow", PyStr(<<"CRUD">>)),
                    KV("Administration.Account", PyStr(<<"CRUD">>))>>)),
                KV("page_access", PyList(<<PyStr(<<"WorkflowAdminCenter">>), PyStr(<<"TaskInbox">>), PyStr(<<"ValidationResultPage">>), PyStr(<<"AuditTrailViewer">>), PyStr(<<"UserManagement">>), PyStr(<<"ReportGenerationPage">>)>>)),
                KV("microflow_access", PyList(<<PyStr(<<"ACT_CreateTask">>), PyStr(<<"ACT_AssignTask">>), PyStr(<<"ACT_CompleteTask">>), PyStr(<<"SUB_CheckUserPermissions">>), PyStr(<<"ACT_ProcessImageQuality">>), PyStr(<<"DS_GetMyTasks">>), PyStr(<<"ACT_InitiateWorkflow">>), PyStr(<<"ACT_GenerateValidationReport">>), PyStr(<<"ACT_UpdateAuditTrail">>), PyStr(<<"ACT_ValidateWorkflowOutcome">>)>>))>>))>>),
        PyDict(<<KV("name", PyStr(<<"LABTechnician">>)),
            KV("description", PyStr(<<"Task execution and data entry for assigned workflows">>)),
            KV("permissions", PyDict(<<KV("entity_access", PyDict(<<KV("ProductValidation", PyDict(<<KV("access", PyStr(<<"R">>)), KV("xpath", PyNone)>>)),
                    KV("ImageAcquisition", PyDict(<<KV("access", PyStr(<<"CRUD">>)),
                        KV("xpath", PyStr(<<"[TechnicianID = $currentUser/Name]">>))>>)),
                    KV("DetailedImageAcquisition", PyDict(<<KV("access", PyStr(<<"CRUD">>)),
                        KV("xpath", PyStr(<<"[ProcessedBy = $currentUser/Name]">>))>>)),
                    KV("ImageAnalysis", PyDict(<<KV("access", PyStr(<<"CRUD">>)),
                        KV("xpath", PyStr(<<"[ProcessedBy = $currentUser/Name]">>))>>)),
                    KV("KPIExtraction", PyDict(<<KV("access", PyStr(<<"CRUD">>)),
                        KV("xpath", PyStr(<<"[ExtractedBy = $currentUser/Name]">>))>>)),
                    KV("ValidationResult", PyStr(<<"R">>)),
                    KV("ValidationReport", PyStr(<<"R">>)),
                    KV("WorkflowAuditTrail", PyDict(<<KV("access", PyStr(<<"R">>)),
                        KV("xpath", PyStr(<<"[PerformedBy = $currentUser/Name]">>))>>)),
                    KV("System.WorkflowUserTask", PyDict(<<KV("access", PyStr(<<"RU">>)),
                        KV("xpath", PyStr(<<"[System.WorkflowUserTask_Account = $currentUser]">>))>>))>>)),
                KV("page_access", PyList(<<PyStr(<<"TaskInbox">>), PyStr(<<"TaskDashboard">>), PyStr(<<"ImageAcquisitionTask">>), PyStr(<<"DetailedImageAcquisitionTask">>), PyStr(<<"ReportGenerationPage">>)>>)),
                KV("microflow_access", PyList(<<PyStr(<<"ACT_CompleteTask">>), PyStr(<<"SUB_CheckUserPermissions">>), PyStr(<<"ACT_ProcessImageQuality">>), PyStr(<<"DS_GetMyTasks">>), PyStr(<<"ACT_InitiateWorkflow">>), PyStr(<<"ACT_GenerateValidationReport">>), PyStr(<<"ACT_UpdateAuditTrail">>)>>))>>))>>),
        PyDict(<<KV("name", PyStr(<<"LABViewer">>)),
            KV("description", PyStr(<<"Read", "-", "only access to public workflow information">>)),
            KV("permissions", PyDict(<<KV("entity_access", PyDict(<<KV("ProductValidation", PyDict(<<KV("access", PyStr(<<"R">>)), KV("xpath", PyStr(<<"[IsPublic = true]">>))>>)),
                    KV("ValidationResult", PyDict(<<KV("access", PyStr(<<"R">>)), KV("xpath", PyStr(<<"[IsPublic = true]">>))>>)),
                    KV("ValidationReport", PyDict(<<KV("access", PyStr(<<"R">>)), KV("xpath", PyStr(<<"[IsPublic = true]">>))>>)),
                    KV("WorkflowAuditTrail", PyDict(<<KV("access", PyStr(<<"R">>)), KV("xpath", PyStr(<<"[IsPublic = true]">>))>>)),
                    KV("System.Workflow", PyDict(<<KV("access", PyStr(<<"R">>)), KV("xpath", PyStr(<<"[IsPublic = true]">>))>>))>>)),
                KV("page_access", PyList(<<PyStr(<<"PublicDashboard">>), PyStr(<<"ReportGenerationPage">>)>>)),
                KV("microflow_access", PyList(<<PyStr(<<"SUB_CheckUserPermissions">>), PyStr(<<"ACT_GenerateValidationReport">>)>>))>>))>>)>>))>>)

get_default_workflow_config ==
  PyDict(<<KV("workflows", PyList(<<
        PyDict(<<KV("name", PyStr(<<"LAB_ProductValidation">>)),
            KV("description", PyStr(<<"Main LAB product validation workflow with TRUE/FALSE decision logic">>)),
            KV("context_entity", PyStr(<<"ProductValidation">>)),
            KV("steps", PyList(<<
              PyDict(<<KV("id", PyStr(<<"start">>)),
                  KV("name", PyStr(<<"Start">>)),
                  KV("type", PyStr(<<"start_event">>)),
                  KV("description", PyStr(<<"Workflow initiation">>))>>),
              PyDict(<<KV("id", PyStr(<<"image_acquisition">>)),
                  KV("name", PyStr(<<"Image Acquisition">>)),
                  KV("type", PyStr(<<"user_task">>)),
                  KV("description", PyStr(<<"Capture product validation images">>)),
                  KV("page", PyStr(<<"ImageAcquisitionTask">>)),
                  KV("assignee_expression", PyStr(<<"$WorkflowContext/InitiatedBy">>)),
                  KV("outcomes", PyList(<<PyStr(<<"completed">>), PyStr(<<"cancelled">>)>>))>>),
              PyDict(<<KV("id", PyStr(<<"quality_validation">>)),
                  KV("name", PyStr(<<"Quality Validation">>)),
                  KV("type", PyStr(<<"decision">>)),
                  KV("description", PyStr(<<"CRITICAL: TRUE/FALSE decision point for image quality">>)),
                  KV("condition", PyStr(<<"$WorkflowContext/LAB_ProductValidation/ImageAcquisition/IsQualityApproved">>)),
                  KV("outcomes", PyList(<<PyStr(<<"true">>), PyStr(<<"false">>)>>))>>),
              PyDict(<<KV("id", PyStr(<<"detailed_acquisition">>)),
                  KV("name", PyStr(<<"Detailed Image Acquisition">>)),
                  KV("type", PyStr(<<"user_task">>)),
                  KV("description", PyStr(<<"Enhanced image processing (TRUE path only)">>)),
                  KV("page", PyStr(<<"DetailedImageAcquisitionTask">>)),
                  KV("assignee_expression", PyStr(<<"$WorkflowContext/InitiatedBy">>)),
                  KV("condition", PyStr(<<"quality_validation == true">>)),
                  KV("outcomes", PyList(<<PyStr(<<"completed">>)>>))>>),
              PyDict(<<KV("id", PyStr(<<"image_analysis">>)),
                  KV("name", PyStr(<<"Automated Analysis">>)),
                  KV("type", PyStr(<<"service_task">>)),
                  KV("description", PyStr(<<"Automated image analysis and KPI extraction">>)),
                  KV("microflow", PyStr(<<"ACT_ProcessImageAnalysis">>)),
                  KV("condition", PyStr(<<"quality_validation == true">>)),
                  KV("outcomes", PyList(<<PyStr(<<"completed">>)>>))>>),
              PyDict(<<KV("id", PyStr(<<"kpi_extraction">>)),
                  KV("name", PyStr(<<"KPI Extraction">>)),
                  KV("type", PyStr(<<"service_task">>)),
                  KV("description", PyStr(<<"Extract performance indicators">>)),
                  KV("microflow", PyStr(<<"ACT_ExtractKPIs">>)),
                  KV("condition", PyStr(<<"quality_validation == true">>)),
                  KV("outcomes", PyList(<<PyStr(<<"completed">>)>>))>>),
              PyDict(<<KV("id", PyStr(<<"lab_validation">>)),
                  KV("name", PyStr(<<"LAB Validation">>)),
                  KV("type", PyStr(<<"user_task">>)),
                  KV("description", PyStr(<<"Final validation decision by LAB administrator">>)),
                  KV("page", PyStr(<<"ValidationResultPage">>)),
                  KV("assignee_role", PyStr(<<"LABAdmin">>)),
                  KV("condition", PyStr(<<"quality_validation == true">>)),
                  KV("outcomes", PyList(<<PyStr(<<"approved">>), PyStr(<<"rejected">>), PyStr(<<"requires_rework">>)>>))>>),
              PyDict(<<KV("id", PyStr(<<"report_generation">>)),
                  KV("name", PyStr(<<"Report Generation">>)),
                  KV("type", PyStr(<<"service_task">>)),
                  KV("description", PyStr(<<"Generate comprehensive validation report">>)),
                  KV("microflow", PyStr(<<"ACT_GenerateValidationReport">>)),
                  KV("condition", PyStr(<<"quality_validation == true AND lab_validation == approved">>)),
                  KV("outcomes", PyList(<<PyStr(<<"completed">>)>>))>>),
              PyDict(<<KV("id", PyStr(<<"workflow_approved">>)),
                  KV("name", PyStr(<<"Workflow Approved">>)),
                  KV("type", PyStr(<<"end_event">>)),
                  KV("description", PyStr(<<"Successful completion ", "-", " TRUE outcome">>)),
                  KV("condition", PyStr(<<"quality_validation == true AND lab_validation == approved">>)),
                  KV("result", PyStr(<<"true">>))>>),
              PyDict(<<KV("id", PyStr(<<"workflow_rejected">>)),
                  KV("name", PyStr(<<"Workflow Rejected">>)),
                  KV("type", PyStr(<<"end_event">>)),
                  KV("description", PyStr(<<"Validation failed ", "-", " FALSE outcome">>)),
                  KV("condition", PyStr(<<"quality_validation == false OR lab_validation == rejected">>)),
                  KV("result", PyStr(<<"false">>))>>)>>)),
            KV("flows", PyList(<<
              PyDict(<<KV("from", PyStr(<<"start">>)), KV("to", PyStr(<<"image_acquisition">>))>>),
              PyDict(<<KV("from", PyStr(<<"image_acquisition">>)),
                  KV("to", PyStr(<<"quality_validation">>)),
                  KV("condition", PyStr(<<"completed">>))>>),
              PyDict(<<KV("from", PyStr(<<"quality_validation">>)),
                  KV("to", PyStr(<<"detailed_acquisition">>)),
                  KV("condition", PyStr(<<"true">>))>>),
              PyDict(<<KV("from", PyStr(<<"quality_validation">>)),
                  KV("to", PyStr(<<"workflow_rejected">>)),
                  KV("condition", PyStr(<<"false">>))>>),
              PyDict(<<KV("from", PyStr(<<"detailed_acquisition">>)),
                  KV("to", PyStr(<<"image_analysis">>)),
                  KV("condition", PyStr(<<"completed">>))>>),
              PyDict(<<KV("from", PyStr(<<"image_analysis">>)),
                  KV("to", PyStr(<<"kpi_extraction">>)),
                  KV("condition", PyStr(<<"completed">>))>>),
              PyDict(<<KV("from", PyStr(<<"kpi_extraction">>)),
                  KV("to", PyStr(<<"lab_validation">>)),
                  KV("condition", PyStr(<<"completed">>))>>),
              PyDict(<<KV("from", PyStr(<<"lab_validation">>)),
                  KV("to", PyStr(<<"report_generation">>)),
                  KV("condition", PyStr(<<"approved">>))>>),
              PyDict(<<KV("from", PyStr(<<"lab_validation">>)),
                  KV("to", PyStr(<<"workflow_rejected">>)),
                  KV("condition", PyStr(<<"rejected">>))>>),
              PyDict(<<KV("from", PyStr(<<"report_generation">>)),
                  KV("to", PyStr(<<"workflow_approved">>)),
                  KV("condition", PyStr(<<"completed">>))>>)>>))>>)>>))>>)

entities ==
  PyList(<<
    PyDict(<<KV("name", PyStr(<<"ProductValidation">>)),
        KV("attributes", PyList(<<
          PyDict(<<KV("name", PyStr(<<"ProductID">>)),
              KV("type", PyStr(<<"String">>)),
              KV("description", PyStr(<<"Unique product identifier">>))>>),
          PyDict(<<KV("name", PyStr(<<"ProductName">>)),
              KV("type", PyStr(<<"String">>)),
              KV("description", PyStr(<<"Product description">>))>>),
          PyDict(<<KV("name", PyStr(<<"BatchNumber">>)),
              KV("type", PyStr(<<"String">>)),
              KV("description", PyStr(<<"Production batch number">>))>>),
          PyDict(<<KV("name", PyStr(<<"ValidationDate">>)),
              KV("type", PyStr(<<"DateTime">>)),
              KV("description", PyStr(<<"Validation start date">>))>>),
          PyDict(<<KV("name", PyStr(<<"Status">>)),
              KV("type", PyStr(<<"Enum">>)),
              KV("enum_name", PyStr(<<"ValidationStatus">>)),
              KV("description", PyStr(<<"Current validation status">>))>>),
          PyDict(<<KV("name", PyStr(<<"Priority">>)),
              KV("type", PyStr(<<"Enum">>)),
              KV("enum_name", PyStr(<<"Priority">>)),
              KV("description", PyStr(<<"Validation priority level">>))>>),
          PyDict(<<KV("name", PyStr(<<"WorkflowOutcome">>)),
              KV("type", PyStr(<<"Boolean">>)),
              KV("description", PyStr(<<"TRUE/FALSE workflow result">>))>>),
          PyDict(<<KV("name", PyStr(<<"CompletionDate">>)),
              KV("type", PyStr(<<"DateTime">>)),
              KV("description", PyStr(<<"Validation completion date">>))>>),
          PyDict(<<KV("name", PyStr(<<"RejectionReason">>)),
              KV("type", PyStr(<<"String">>)),
              KV("description", PyStr(<<"Reason for rejection if failed">>))>>),
          PyDict(<<KV("name", PyStr(<<"CreatedBy">>)),
              KV("type", PyStr(<<"String">>)),
              KV("description", PyStr(<<"User who initiated validation">>))>>)>>))>>),
    PyDict(<<KV("name", PyStr(<<"ImageAcquisition">>)),
        KV("attributes", PyList(<<
          PyDict(<<KV("name", PyStr(<<"AcquisitionID">>)),
              KV("type", PyStr(<<"String">>)),
              KV("description", PyStr(<<"Unique acquisition identifier">>))>>),
          PyDict(<<KV("name", PyStr(<<"ImagePath">>)),
              KV("type", PyStr(<<"String">>)),
              KV("description", PyStr(<<"Path to stored image file">>))>>),
          PyDict(<<KV("name", PyStr(<<"AcquisitionDate">>)),
              KV("type", PyStr(<<"DateTime">>)),
              KV("description", PyStr(<<"When image was captured">>))>>),
          PyDict(<<KV("name", PyStr(<<"TechnicianID">>)),
              KV("type", PyStr(<<"String">>)),
              KV("description", PyStr(<<"Technician performing acquisition">>))>>),
          PyDict(<<KV("name", PyStr(<<"ImageQuality">>)),
              KV("type", PyStr(<<"Enum">>)),
              KV("enum_name", PyStr(<<"ImageQuality">>)),
              KV("description", PyStr(<<"Quality assessment result">>))>>),
          PyDict(<<KV("name", PyStr(<<"Resolution">>)),
              KV("type", PyStr(<<"String">>)),
              KV("description", PyStr(<<"Image resolution specification">>))>>),
          PyDict(<<KV("name", PyStr(<<"ColorDepth">>)),
              KV("type", PyStr(<<"Integer">>)),
              KV("description", PyStr(<<"Color depth in bits">>))>>),
          PyDict(<<KV("name", PyStr(<<"FileSize">>)),
              KV("type", PyStr(<<"Decimal">>)),
              KV("description", PyStr(<<"Image file size in MB">>))>>),
          PyDict(<<KV("name", PyStr(<<"CaptureSettings">>)),
              KV("type", PyStr(<<"String">>)),
              KV("description", PyStr(<<"Camera/equipment settings used">>))>>)>>))>>),
    PyDict(<<KV("name", PyStr(<<"ImageQualityValidation">>)),
        KV("attributes", PyList(<<
          PyDict(<<KV("name", PyStr(<<"ValidationID">>)),
              KV("type", PyStr(<<"String">>)),
              KV("description", PyStr(<<"Unique validation identifier">>))>>),
          PyDict(<<KV("name", PyStr(<<"QualityScore">>)),
              KV("type", PyStr(<<"Decimal">>)),
              KV("description", PyStr(<<"Numerical quality score">>))>>),
          PyDict(<<KV("name", PyStr(<<"QualityThreshold">>)),
              KV("type", PyStr(<<"Decimal">>)),
              KV("description", PyStr(<<"Minimum acceptable quality">>))>>),
          PyDict(<<KV("name", PyStr(<<"ValidationResult">>)),
              KV("type", PyStr(<<"Boolean">>)),
              KV("description", PyStr(<<"Pass/fail validation result">>))>>),
          PyDict(<<KV("name", PyStr(<<"ValidatedBy">>)),
              KV("type", PyStr(<<"String">>)),
              KV("description", PyStr(<<"User performing validation">>))>>),
          PyDict(<<KV("name", PyStr(<<"ValidationDate">>)),
              KV("type", PyStr(<<"DateTime">>)),
              KV("description", PyStr(<<"When validation was performed">>))>>),
          PyDict(<<KV("name", PyStr(<<"QualityMetrics">>)),
              KV("type", PyStr(<<"String">>)),
              KV("description", PyStr(<<"Detailed quality measurements">>))>>),
          PyDict(<<KV("name", PyStr(<<"Comments">>)),
              KV("type", PyStr(<<"String">>)),
              KV("description", PyStr(<<"Additional validation comments">>))>>)>>))>>),
    PyDict(<<KV("name", PyStr(<<"DetailedImageAcquisition">>)),
        KV("attributes", PyList(<<
          PyDict(<<KV("name", PyStr(<<"DetailedID">>)),
              KV("type", PyStr(<<"String">>)),
              KV("description", PyStr(<<"Unique detailed acquisition ID">>))>>),
          PyDict(<<KV("name", PyStr(<<"EnhancedImagePath">>)),
              KV("type", PyStr(<<"String">>)),
              KV("description", PyStr(<<"Path to enhanced image">>))>>),
          PyDict(<<KV("name", PyStr(<<"ProcessingDate">>)),
              KV("type", PyStr(<<"DateTime">>)),
              KV("description", PyStr(<<"When detailed processing occurred">>))>>),
          PyDict(<<KV("name", PyStr(<<"TechnicianID">>)),
              KV("type", PyStr(<<"String">>)),
              KV("description", PyStr(<<"Technician performing detailed work">>))>>),
          PyDict(<<KV("name", PyStr(<<"EnhancementType">>)),
              KV("type", PyStr(<<"Enum">>)),
              KV("enum_name", PyStr(<<"EnhancementType">>)),
              KV("description", PyStr(<<"Type of enhancement applied">>))>>),
          PyDict(<<KV("name", PyStr(<<"ProcessingDuration">>)),
              KV("type", PyStr(<<"Integer">>)),
              KV("description", PyStr(<<"Processing time in minutes">>))>>),
          PyDict(<<KV("name", PyStr(<<"SpecializedEquipment">>)),
              KV("type", PyStr(<<"String">>)),
              KV("description", PyStr(<<"Equipment used for enhancement">>))>>),
          PyDict(<<KV("name", PyStr(<<"QualityImprovement">>)),
              KV("type", PyStr(<<"Decimal">>)),
              KV("description", PyStr(<<"Quality improvement percentage">>))>>)>>))>>),
    PyDict(<<KV("name", PyStr(<<"ImageAnalysis">>)),
        KV("attributes", PyList(<<
          PyDict(<<KV("name", PyStr(<<"AnalysisID">>)),
              KV("type", PyStr(<<"String">>)),
              KV("description", PyStr(<<"Unique analysis identifier">>))>>),
          PyDict(<<KV("name", PyStr(<<"AnalysisDate">>)),
              KV("type", PyStr(<<"DateTime">>)),
              KV("description", PyStr(<<"When analysis was performed">>))>>),
          PyDict(<<KV("name", PyStr(<<"ProcessedBy">>)),
              KV("type", PyStr(<<"String">>)),
              KV("description", PyStr(<<"User performing analysis">>))>>),
          PyDict(<<KV("name", PyStr(<<"AnalysisType">>)),
              KV("type", PyStr(<<"Enum">>)),
              KV("enum_name", PyStr(<<"AnalysisType">>)),
              KV("description", PyStr(<<"Type of analysis performed">>))>>),
          PyDict(<<KV("name", PyStr(<<"AnalysisResults">>)),
              KV("type", PyStr(<<"String">>)),
              KV("description", PyStr(<<"Detailed analysis findings">>))>>),
          PyDict(<<KV("name", PyStr(<<"ConfidenceLevel">>)),
              KV("type", PyStr(<<"Decimal">>)),
              KV("description", PyStr(<<"Analysis confidence percentage">>))>>),
          PyDict(<<KV("name", PyStr(<<"ProcessingAlgorithm">>)),
              KV("type", PyStr(<<"String">>)),
              KV("description", PyStr(<<"Algorithm used for analysis">>))>>),
          PyDict(<<KV("name", PyStr(<<"AnalysisDuration">>)),
              KV("type", PyStr(<<"Integer">>)),
              KV("description", PyStr(<<"Analysis time in minutes">>))>>)>>))>>),
    PyDict(<<KV("name", PyStr(<<"KPIExtraction">>)),
        KV("attributes", PyList(<<
          PyDict(<<KV("name", PyStr(<<"ExtractionID">>)),
              KV("type", PyStr(<<"String">>)),
              KV("description", PyStr(<<"Unique extraction identifier">>))>>),
          PyDict(<<KV("name", PyStr(<<"ExtractedBy">>)),
              KV("type", PyStr(<<"String">>)),
              KV("description", PyStr(<<"User performing extraction">>))>>),
          PyDict(<<KV("name", PyStr(<<"ExtractionDate">>)),
              KV("type", PyStr(<<"DateTime">>)),
              KV("description", PyStr(<<"When KPIs were extracted">>))>>),
          PyDict(<<KV("name", PyStr(<<"KPIValues">>)),
              KV("type", PyStr(<<"String">>)),
              KV("description", PyStr(<<"JSON formatted KPI values">>))>>),
          PyDict(<<KV("name", PyStr(<<"ExtractionMethod">>)),
              KV("type", PyStr(<<"Enum">>)),
              KV("enum_name", PyStr(<<"ExtractionMethod">>)),
              KV("description", PyStr(<<"Method used for extraction">>))>>),
          PyDict(<<KV("name", PyStr(<<"DataAccuracy">>)),
              KV("type", PyStr(<<"Decimal">>)),
              KV("description", PyStr(<<"Extraction accuracy percentage">>))>>),
          PyDict(<<KV("name", PyStr(<<"ValidationStatus">>)),
              KV("type", PyStr(<<"Enum">>)),
              KV("enum_name", PyStr(<<"ValidationStatus">>)),
              KV("description", PyStr(<<"KPI validation status">>))>>)>>))>>),
    PyDict(<<KV("name", PyStr(<<"ValidationResult">>)),
        KV("attributes", PyList(<<
          PyDict(<<KV("name", PyStr(<<"ResultID">>)),
              KV("type", PyStr(<<"String">>)),
              KV("description", PyStr(<<"Unique result identifier">>))>>),
          PyDict(<<KV("name", PyStr(<<"FinalOutcome">>)),
              KV("type", PyStr(<<"Boolean">>)),
              KV("description", PyStr(<<"Final TRUE/FALSE outcome">>))>>),
          PyDict(<<KV("name", PyStr(<<"ResultDate">>)),
              KV("type", PyStr(<<"DateTime">>)),
              KV("description", PyStr(<<"When result was determined">>))>>),
          PyDict(<<KV("name", PyStr(<<"ApprovedBy">>)),
              KV("type", PyStr(<<"String">>)),
              KV("description", PyStr(<<"User approving final result">>))>>),
          PyDict(<<KV("name", PyStr(<<"ApprovalLevel">>)),
              KV("type", PyStr(<<"Enum">>)),
              KV("enum_name", PyStr(<<"ApprovalLevel">>)),
              KV("description", PyStr(<<"Level of approval required">>))>>),
          PyDict(<<KV("name", PyStr(<<"ResultSummary">>)),
              KV("type", PyStr(<<"String">>)),
              KV("description", PyStr(<<"Summary of validation findings">>))>>),
          PyDict(<<KV("name", PyStr(<<"RecommendedActions">>)),
              KV("type", PyStr(<<"String">>)),
              KV("description", PyStr(<<"Recommended follow", "-", "up actions">>))>>)>>))>>),
    PyDict(<<KV("name", PyStr(<<"ValidationReport">>)),
        KV("attributes", PyList(<<
          PyDict(<<KV("name", PyStr(<<"ReportID">>)),
              KV("type", PyStr(<<"String">>)),
              KV("description", PyStr(<<"Unique report identifier">>))>>),
          PyDict(<<KV("name", PyStr(<<"GeneratedDate">>)),
              KV("type", PyStr(<<"DateTime">>)),
              KV("description", PyStr(<<"Report generation date">>))>>),
          PyDict(<<KV("name", PyStr(<<"GeneratedBy">>)),
              KV("type", PyStr(<<"String">>)),
              KV("description", PyStr(<<"User generating report">>))>>),
          PyDict(<<KV("name", PyStr(<<"ReportFormat">>)),
              KV("type", PyStr(<<"Enum">>)),
              KV("enum_name", PyStr(<<"ReportFormat">>)),
              KV("description", PyStr(<<"Report output format">>))>>),
          PyDict(<<KV("name", PyStr(<<"ReportContent">>)),
              KV("type", PyStr(<<"String">>)),
              KV("description", PyStr(<<"Complete report content">>))>>),
          PyDict(<<KV("name", PyStr(<<"DistributionList">>)),
              KV("type", PyStr(<<"String">>)),
              KV("description", PyStr(<<"Report distribution recipients">>))>>),
          PyDict(<<KV("name", PyStr(<<"DigitalSignature">>)),
              KV("type", PyStr(<<"String">>)),
              KV("description", PyStr(<<"Digital signature for authenticity">>))>>)>>))>>),
    PyDict(<<KV("name", PyStr(<<"WorkflowAuditTrail">>)),
        KV("attributes", PyList(<<
          PyDict(<<KV("name", PyStr(<<"AuditID">>)),
              KV("type", PyStr(<<"String">>)),
              KV("description", PyStr(<<"Unique audit entry identifier">>))>>),
          PyDict(<<KV("name", PyStr(<<"EventTimestamp">>)),
              KV("type", PyStr(<<"DateTime">>)),
              KV("description", PyStr(<<"When event occurred">>))>>),
          PyDict(<<KV("name", PyStr(<<"PerformedBy">>)),
              KV("type", PyStr(<<"String">>)),
              KV("description", PyStr(<<"User performing action">>))>>),
          PyDict(<<KV("name", PyStr(<<"ActionType">>)),
              KV("type", PyStr(<<"Enum">>)),
              KV("enum_name", PyStr(<<"AuditActionType">>)),
              KV("description", PyStr(<<"Type of action performed">>))>>),
          PyDict(<<KV("name", PyStr(<<"EntityAffected">>)),
              KV("type", PyStr(<<"String">>)),
              KV("description", PyStr(<<"Entity that was modified">>))>>),
          PyDict(<<KV("name", PyStr(<<"OldValue">>)),
              KV("type", PyStr(<<"String">>)),
              KV("description", PyStr(<<"Previous value before change">>))>>),
          PyDict(<<KV("name", PyStr(<<"NewValue">>)),
              KV("type", PyStr(<<"String">>)),
              KV("description", PyStr(<<"New value after change">>))>>),
          PyDict(<<KV("name", PyStr(<<"ChangeReason">>)),
              KV("type", PyStr(<<"String">>)),
              KV("description", PyStr(<<"Reason for the change">>))>>)>>))>>)>>)

enumerations ==
  PyList(<<
    PyDict(<<KV("name", PyStr(<<"ValidationStatus">>)),
        KV("values", PyList(<<
          PyDict(<<KV("name", PyStr(<<"Pending">>)), KV("caption", PyStr(<<"Pending">>))>>),
          PyDict(<<KV("name", PyStr(<<"InProgress">>)), KV("caption", PyStr(<<"In Progress">>))>>),
          PyDict(<<KV("name", PyStr(<<"Approved">>)), KV("caption", PyStr(<<"Approved">>))>>),
          PyDict(<<KV("name", PyStr(<<"Rejected">>)), KV("caption", PyStr(<<"Rejected">>))>>),
          PyDict(<<KV("name", PyStr(<<"OnHold">>)), KV("caption", PyStr(<<"On Hold">>))>>),
          PyDict(<<KV("name", PyStr(<<"Completed">>)), KV("caption", PyStr(<<"Completed">>))>>)>>))>>),
    PyDict(<<KV("name", PyStr(<<"Priority">>)),
        KV("values", PyList(<<
          PyDict(<<KV("name", PyStr(<<"Low">>)), KV("caption", PyStr(<<"Low">>))>>),
          PyDict(<<KV("name", PyStr(<<"Medium">>)), KV("caption", PyStr(<<"Medium">>))>>),
          PyDict(<<KV("name", PyStr(<<"High">>)), KV("caption", PyStr(<<"High">>))>>),
          PyDict(<<KV("name", PyStr(<<"Critical">>)), KV("caption", PyStr(<<"Critical">>))>>)>>))>>),
    PyDict(<<KV("name", PyStr(<<"ImageQuality">>)),
        KV("values", PyList(<<
          PyDict(<<KV("name", PyStr(<<"Poor">>)), KV("caption", PyStr(<<"Poor">>))>>),
          PyDict(<<KV("name", PyStr(<<"Fair">>)), KV("caption", PyStr(<<"Fair">>))>>),
          PyDict(<<KV("name", PyStr(<<"Good">>)), KV("caption", PyStr(<<"Good">>))>>),
          PyDict(<<KV("name", PyStr(<<"Excellent">>)), KV("caption", PyStr(<<"Excellent">>))>>),
          PyDict(<<KV("name", PyStr(<<"Outstanding">>)), KV("caption", PyStr(<<"Outstanding">>))>>)>>))>>),
    PyDict(<<KV("name", PyStr(<<"WorkflowStage">>)),
        KV("values", PyList(<<
          PyDict(<<KV("name", PyStr(<<"ImageAcquisition">>)),
              KV("caption", PyStr(<<"Image Acquisition">>))>>),
          PyDict(<<KV("name", PyStr(<<"QualityValidation">>)),
              KV("caption", PyStr(<<"Quality Validation">>))>>),
          PyDict(<<KV("name", PyStr(<<"DetailedAcquisition">>)),
              KV("caption", PyStr(<<"Detailed Acquisition">>))>>),
          PyDict(<<KV("name", PyStr(<<"Analysis">>)), KV("caption", PyStr(<<"Analysis">>))>>),
          PyDict(<<KV("name", PyStr(<<"KPIExtraction">>)), KV("caption", PyStr(<<"KPI Extraction">>))>>),
          PyDict(<<KV("name", PyStr(<<"LABValidation">>)), KV("caption", PyStr(<<"LAB Validation">>))>>),
          PyDict(<<KV("name", PyStr(<<"ReportGeneration">>)),
              KV("caption", PyStr(<<"Report Generation">>))>>)>>))>>),
    PyDict(<<KV("name", PyStr(<<"ApprovalLevel">>)),
        KV("values", PyList(<<
          PyDict(<<KV("name", PyStr(<<"Technician">>)), KV("caption", PyStr(<<"Technician">>))>>),
          PyDict(<<KV("name", PyStr(<<"Supervisor">>)), KV("caption", PyStr(<<"Supervisor">>))>>),
          PyDict(<<KV("name", PyStr(<<"Manager">>)), KV("caption", PyStr(<<"Manager">>))>>),
          PyDict(<<KV("name", PyStr(<<"Director">>)), KV("caption", PyStr(<<"Director">>))>>)>>))>>),
    PyDict(<<KV("name", PyStr(<<"EnhancementType">>)),
        KV("values", PyList(<<
          PyDict(<<KV("name", PyStr(<<"ColorCorrection">>)), KV("caption", PyStr(<<"Color Correction">>))>>),
          PyDict(<<KV("name", PyStr(<<"NoiseReduction">>)), KV("caption", PyStr(<<"Noise Reduction">>))>>),
          PyDict(<<KV("name", PyStr(<<"SharpnessEnhancement">>)),
              KV("caption", PyStr(<<"Sharpness Enhancement">>))>>),
          PyDict(<<KV("name", PyStr(<<"ContrastAdjustment">>)),
              KV("caption", PyStr(<<"Contrast Adjustment">>))>>)>>))>>),
    PyDict(<<KV("name", PyStr(<<"AnalysisType">>)),
        KV("values", PyList(<<
          PyDict(<<KV("name", PyStr(<<"Dimensional">>)), KV("caption", PyStr(<<"Dimensional Analysis">>))>>),
          PyDict(<<KV("name", PyStr(<<"ColorAnalysis">>)), KV("caption", PyStr(<<"Color Analysis">>))>>),
          PyDict(<<KV("name", PyStr(<<"TextureAnalysis">>)), KV("caption", PyStr(<<"Texture Analysis">>))>>),
          PyDict(<<KV("name", PyStr(<<"DefectDetection">>)), KV("caption", PyStr(<<"Defect Detection">>))>>)>>))>>),
    PyDict(<<KV("name", PyStr(<<"ExtractionMethod">>)),
        KV("values", PyList(<<
          PyDict(<<KV("name", PyStr(<<"Automated">>)), KV("caption", PyStr(<<"Automated">>))>>),
          PyDict(<<KV("name", PyStr(<<"SemiAutomated">>)),
              KV("caption", PyStr(<<"Semi", "-", "Automated">>))>>),
          PyDict(<<KV("name", PyStr(<<"Manual">>)), KV("caption", PyStr(<<"Manual">>))>>)>>))>>),
    PyDict(<<KV("name", PyStr(<<"ReportFormat">>)),
        KV("values", PyList(<<
          PyDict(<<KV("name", PyStr(<<"PDF">>)), KV("caption", PyStr(<<"PDF">>))>>),
          PyDict(<<KV("name", PyStr(<<"Excel">>)), KV("caption", PyStr(<<"Excel">>))>>),
          PyDict(<<KV("name", PyStr(<<"Word">>)), KV("caption", PyStr(<<"Word">>))>>),
          PyDict(<<KV("name", PyStr(<<"HTML">>)), KV("caption", PyStr(<<"HTML">>))>>)>>))>>),
    PyDict(<<KV("name", PyStr(<<"AuditActionType">>)),
        KV("values", PyList(<<
          PyDict(<<KV("name", PyStr(<<"Created">>)), KV("caption", PyStr(<<"Created">>))>>),
          PyDict(<<KV("name", PyStr(<<"Modified">>)), KV("caption", PyStr(<<"Modified">>))>>),
          PyDict(<<KV("name", PyStr(<<"Deleted">>)), KV("caption", PyStr(<<"Deleted">>))>>),
          PyDict(<<KV("name", PyStr(<<"Approved">>)), KV("caption", PyStr(<<"Approved">>))>>),
          PyDict(<<KV("name", PyStr(<<"Rejected">>)), KV("caption", PyStr(<<"Rejected">>))>>)>>))>>)>>)

(***************************************************************************)
(* Element trees (xml.etree.ElementTree).  An element holds its attributes *)
(* in insertion order, an optional text and its children; a comment is a   *)
(* node whose text is the comment's text.                                  *)
(***************************************************************************)
Attr(k, x) == [k |-> k, x |-> x]
Element(tag, attrs, text, kids) ==
  [tag |-> tag, attrs |-> attrs, text |-> text, kids |-> kids]
Comment(text) == Element("#comment", <<>>, PyStr(text), <<>>)
NoElement == Element("", <<>>, PyNone, <<>>)

\* What a call of a builder ends in: an element, the None it returns from its
\* own except clause, or an exception leaving it.
Built(el) == [st |-> "ok", el |-> el]
ReturnedNone == [st |-> "none", el |-> NoElement]
Raised == [st |-> "raise", el |-> NoElement]

\* a part of a tree or of a text that is there only under a condition
Opt(cond, seq) == IF cond THEN seq ELSE <<>>

\* strftime('%Y-%m-%d %H:%M:%S') of datetime.now(): the second, as text
Timestamp(now) == <<ToString(now)>>

(***************************************************************************)
(* generate-pages.py                                                       *)
(***************************************************************************)
page_component(component) ==
  Element("component",
    <<Attr("type", Get(component, "type", PyStr(<<"Unknown">>))),
      Attr("title", Get(component, "title", PyStr(<<"Untitled">>)))>>
    \o Opt(Has(component, "entity"), <<Attr("entity", Item(component, "entity"))>>)
    \o Opt(Has(component, "field"), <<Attr("field", Item(component, "field"))>>)
    \o Opt(Has(component, "action"), <<Attr("action", Item(component, "action"))>>)
    \o Opt(Has(component, "constraint"), <<Attr("constraint", Item(component, "constraint"))>>)
    \o Opt(Has(component, "enumeration"), <<Attr("enumeration", Item(component, "enumeration"))>>),
    PyNone, <<>>)

generate_page_xml(page_config) ==
  IF ~IsDict(page_config) THEN Raised  \* .get fails, and again in the except clause
  ELSE
    LET roles == Item(page_config, "security_roles")
        comps == Item(page_config, "components")
        hasComps == Has(page_config, "components") /\ Truthy(comps)
        fails ==
          \/ Has(page_config, "security_roles") /\ ~Iterable(roles)
          \/ hasComps /\ ~Iterable(comps)
          \/ hasComps /\ \E i \in 1..Len(Items(comps)) : ~IsDict(Items(comps)[i])
    IN IF fails THEN ReturnedNone
       ELSE Built(Element("page",
              <<Attr("name", Get(page_config, "name", PyStr(<<"UnknownPage">>))),
                Attr("type", Get(page_config, "type", PyStr(<<"page">>)))>>,
              PyNone,
              Opt(Has(page_config, "description"),
                  <<Element("documentation", <<>>, Item(page_config, "description"), <<>>)>>)
              \o Opt(Has(page_config, "security_roles"),
                  <<Element("security", <<>>, PyNone,
                      [i \in 1..Len(Items(roles)) |->
                         Element("allowedRole", <<Attr("name", Items(roles)[i])>>, PyNone, <<>>)])>>)
              \o Opt(Has(page_config, "layout"),
                  <<Element("layout", <<Attr("type", Item(page_config, "layout"))>>, PyNone, <<>>)>>)
              \o Opt(hasComps,
                  <<Element("components", <<>>, PyNone,
                      [i \in 1..Len(Items(comps)) |-> page_component(Items(comps)[i])])>>)))

(***************************************************************************)
(* generate-enumerations.py                                                *)
(***************************************************************************)
enumeration_value(value) ==
  Element("value",
    <<Attr("name", Get(value, "name", PyStr(<<"UnknownValue">>))),
      Attr("caption", IF Has(value, "caption") THEN Item(value, "caption")
                      ELSE Get(value, "name", PyStr(<<"UnknownValue">>)))>>,
    PyNone,
    Opt(Has(value, "description"),
        <<Element("documentation", <<>>, Item(value, "description"), <<>>)>>))

generate_enumeration_xml(enum_config) ==
  IF ~IsDict(enum_config) THEN Raised
  ELSE
    LET values == Item(enum_config, "values")
        hasValues == Has(enum_config, "values") /\ Truthy(values)
        fails ==
          \/ hasValues /\ ~Iterable(values)
          \/ hasValues /\ \E i \in 1..Len(Items(values)) : ~IsDict(Items(values)[i])
    IN IF fails THEN ReturnedNone
       ELSE Built(Element("enumeration",
              <<Attr("name", Get(enum_config, "name", PyStr(<<"UnknownEnumeration">>)))>>,
              PyNone,
              Opt(Has(enum_config, "description"),
                  <<Element("documentation", <<>>, Item(enum_config, "description"), <<>>)>>)
              \o Opt(hasValues,
                  <<Element("values", <<>>, PyNone,
                      [i \in 1..Len(Items(values)) |-> enumeration_value(Items(values)[i])])>>)))

(***************************************************************************)
(* generate-security.py                                                    *)
(***************************************************************************)
security_entity(pair) ==
  LET access_config == pair.x
  IN Element("entity",
       <<Attr("name", PyStr(<<pair.k>>))>>
       \o Opt(IsStr(access_config), <<Attr("access", access_config)>>)
       \o Opt(IsDict(access_config),
              <<Attr("access", Get(access_config, "access", PyStr(<<"R">>)))>>),
       PyNone,
       Opt(IsDict(access_config) /\ Truthy(Get(access_config, "xpath", PyNone)),
           <<Element("xpath", <<>>, Item(access_config, "xpath"), <<>>)>>))

generate_security_role_xml(role_config) ==
  IF ~IsDict(role_config) THEN Raised
  ELSE
    LET permissions == Item(role_config, "permissions")
        hasPerm == Has(role_config, "permissions")
        entity_access == Item(permissions, "entity_access")
        page_access == Item(permissions, "page_access")
        microflow_access == Item(permissions, "microflow_access")
        fails ==
          /\ hasPerm
          /\ \/ ~SupportsIn(permissions)
             \* a list or string holding the key cannot be subscripted by it
             \/ ~IsDict(permissions)
                  /\ \E key \in {"entity_access", "page_access", "microflow_access"} :
                        Contains(permissions, key)
             \/ Has(permissions, "entity_access") /\ ~IsDict(entity_access)
             \/ Has(permissions, "page_access") /\ ~Iterable(page_access)
             \/ Has(permissions, "microflow_access") /\ ~Iterable(microflow_access)
    IN IF fails THEN ReturnedNone
       ELSE Built(Element("userRole",
              <<Attr("name", Get(role_config, "name", PyStr(<<"UnknownRole">>)))>>,
              PyNone,
              Opt(Has(role_config, "description"),
                  <<Element("documentation", <<>>, Item(role_config, "description"), <<>>)>>)
              \o Opt(hasPerm /\ Has(permissions, "entity_access"),
                  <<Element("entityAccess", <<>>, PyNone,
                      [i \in 1..Len(entity_access.v) |-> security_entity(entity_access.v[i])])>>)
              \o Opt(hasPerm /\ Has(permissions, "page_access"),
                  <<Element("pageAccess", <<>>, PyNone,
                      [i \in 1..Len(Items(page_access)) |->
                         Element("page", <<Attr("name", Items(page_access)[i])>>, PyNone, <<>>)])>>)
              \o Opt(hasPerm /\ Has(permissions, "microflow_access"),
                  <<Element("microflowAccess", <<>>, PyNone,
                      [i \in 1..Len(Items(microflow_access)) |->
                         Element("microflow", <<Attr("name", Items(microflow_access)[i])>>,
                                 PyNone, <<>>)])>>)))

(***************************************************************************)
(* generate-workflows.py                                                   *)
(***************************************************************************)
workflow_step(step) ==
  Element("step",
    <<Attr("id", Get(step, "id", PyStr(<<"unknown">>))),
      Attr("name", Get(step, "name", PyStr(<<"Unknown Step">>))),
      Attr("type", Get(step, "type", PyStr(<<"task">>)))>>
    \o Opt(Has(step, "page"), <<Attr("page", Item(step, "page"))>>)
    \o Opt(Has(step, "microflow"), <<Attr("microflow", Item(step, "microflow"))>>)
    \o Opt(Has(step, "result"), <<Attr("result", Item(step, "result"))>>),
    PyNone,
    Opt(Has(step, "description"),
        <<Element("documentation", <<>>, Item(step, "description"), <<>>)>>)
    \o Opt(Has(step, "assignee_expression"),
        <<Element("assignee", <<>>, Item(step, "assignee_expression"), <<>>)>>)
    \o Opt(Has(step, "assignee_role"),
        <<Element("assigneeRole", <<>>, Item(step, "assignee_role"), <<>>)>>)
    \o Opt(Has(step, "condition"),
        <<Element("condition", <<>>, Item(step, "condition"), <<>>)>>)
    \o Opt(Has(step, "outcomes"),
        <<Element("outcomes", <<>>, PyNone,
            [i \in 1..Len(Items(Item(step, "outcomes"))) |->
               Element("outcome", <<Attr("name", Items(Item(step, "outcomes"))[i])>>,
                       PyNone, <<>>)])>>))

workflow_flow(flow) ==
  Element("flow",
    <<Attr("from", Get(flow, "from", PyStr(<<>>))),
      Attr("to", Get(flow, "to", PyStr(<<>>)))>>,
    PyNone,
    Opt(Has(flow, "condition"),
        <<Element("condition", <<>>, Item(flow, "condition"), <<>>)>>))

generate_workflow_xml(workflow_config) ==
  IF ~IsDict(workflow_config) THEN Raised
  ELSE
    LET steps == Item(workflow_config, "steps")
        flows == Item(workflow_config, "flows")
        hasSteps == Has(workflow_config, "steps") /\ Truthy(steps)
        hasFlows == Has(workflow_config, "flows") /\ Truthy(flows)
        fails ==
          \/ hasSteps /\ ~Iterable(steps)
          \/ hasSteps /\ \E i \in 1..Len(Items(steps)) :
                \/ ~IsDict(Items(steps)[i])
                \/ Has(Items(steps)[i], "outcomes")
                     /\ ~Iterable(Item(Items(steps)[i], "outcomes"))
          \/ hasFlows /\ ~Iterable(flows)
          \/ hasFlows /\ \E i \in 1..Len(Items(flows)) : ~IsDict(Items(flows)[i])
    IN IF fails THEN ReturnedNone
       ELSE Built(Element("workflow",
              <<Attr("name", Get(workflow_config, "name", PyStr(<<"UnknownWorkflow">>)))>>,
              PyNone,
              Opt(Has(workflow_config, "description"),
                  <<Element("documentation", <<>>, Item(workflow_config, "description"), <<>>)>>)
              \o Opt(Has(workflow_config, "context_entity"),
                  <<Element("contextEntity",
                      <<Attr("name", Item(workflow_config, "context_entity"))>>, PyNone, <<>>)>>)
              \o Opt(hasSteps,
                  <<Element("steps", <<>>, PyNone,
                      [i \in 1..Len(Items(steps)) |-> workflow_step(Items(steps)[i])])>>)
              \o Opt(hasFlows,
                  <<Element("flows", <<>>, PyNone,
                      [i \in 1..Len(Items(flows)) |-> workflow_flow(Items(flows)[i])])>>)))
(***************************************************************************)
(* generate-microflows.py.  The fixed lines of each comment and of the     *)
(* documentation text are one token each, and a long fixed passage is cut  *)
(* after its first lines; none of them holds two adjacent hyphens, and     *)
(* each field value is set off from them by a space or a line break.       *)
(***************************************************************************)
microflow_header_comment(microflow_config, now) ==
  <<"\n=== LAB WORKFLOW MICROFLOW ===\nName: ">>
  \o StrOf(Get(microflow_config, "name", PyStr(<<"Unknown">>)))
  \o <<"\nType: ">> \o StrOf(Get(microflow_config, "type", PyStr(<<"action">>)))
  \o <<"\nCompatible with: Mendix 10.18.1, Workflow Commons 3.12.1\nGenerated: ">>
  \o Timestamp(now)
  \o <<"\n\nPurpose: ">>
  \o StrOf(Get(microflow_config, "description", PyStr(<<"LAB workflow operation">>)))
  \o <<"\nSecurity: Restricted to roles - ">>
  \o Join(Get(microflow_config, "security_roles", PyList(<<PyStr(<<"All users">>)>>)))
  \o <<"\nUsage: Called from workflow steps, pages, or other microflows\n\nIMPLEMENTATION NOTES:\n">>

microflow_documentation(microflow_config) ==
  <<"\n">> \o StrOf(Item(microflow_config, "description"))
  \o <<"\n\n=== IMPLEMENTATION GUIDE ===\n\nSecurity Roles: ">>
  \o Join(Get(microflow_config, "security_roles", PyList(<<PyStr(<<"All">>)>>)))
  \o <<"\nReturn Type: ">>
  \o StrOf(Get(microflow_config, "return_type", PyStr(<<"None">>)))
  \o <<"\n\nBusiness Rules:\n">>

microflow_parameter(param, i) ==
  <<Comment(<<" Parameter ", ToString(i), ": ">>
            \o StrOf(Get(param, "name", PyStr(<<"Unknown">>)))
            \o <<" (">> \o StrOf(Get(param, "type", PyStr(<<"String">>))) \o <<") ">>),
    Element("parameter",
      <<Attr("name", Get(param, "name", PyStr(<<"UnknownParam">>))),
        Attr("type", Get(param, "type", PyStr(<<"String">>)))>>,
      PyNone,
      <<Element("documentation", <<>>,
          PyStr(<<"\nParameter: ">> \o StrOf(Get(param, "name", PyStr(<<"Unknown">>)))
                \o <<"\nType: ">> \o StrOf(Get(param, "type", PyStr(<<"String">>)))
                \o <<"\nRequired: Yes\nDescription: ">>
                \o StrOf(Get(param, "description",
                             PyStr(<<"Input parameter for LAB workflow operation">>)))
                \o <<"\nValidation: Validate this parameter at microflow start\n">>),
          <<>>)>>)>>

microflow_flow ==
  Element("flow", <<>>, PyNone,
    <<Comment(<<"\nMICROFLOW FLOW STRUCTURE for Mendix 10.18.1\n">>),
      Comment(<<" START EVENT - Microflow entry point ">>),
      Element("start", <<Attr("id", PyStr(<<"start">>)), Attr("name", PyStr(<<"Start">>))>>,
              PyNone, <<>>),
      Comment(<<" TODO: Add input validation activities here ">>),
      Comment(<<" TODO: Add core business logic activities here ">>),
      Comment(<<" TODO: Add audit trail logging here ">>),
      Comment(<<" END EVENT - Microflow exit point ">>),
      Element("end", <<Attr("id", PyStr(<<"end">>)), Attr("name", PyStr(<<"End">>))>>,
              PyNone, <<>>),
      Comment(<<" SEQUENCE FLOW - Connect activities in logical order ">>),
      Element("sequenceFlow",
              <<Attr("id", PyStr(<<"flow1">>)), Attr("sourceRef", PyStr(<<"start">>)),
                Attr("targetRef", PyStr(<<"end">>))>>, PyNone, <<>>)>>)

generate_microflow_xml(microflow_config, now) ==
  IF ~IsDict(microflow_config) THEN Raised
  ELSE
    LET roles == Item(microflow_config, "security_roles")
        params == Item(microflow_config, "parameters")
        hasParams == Has(microflow_config, "parameters") /\ Truthy(params)
        fails ==
          \/ Has(microflow_config, "security_roles") /\ ~Joinable(roles)
          \/ hasParams /\ ~Sized(params)
          \/ hasParams /\ \E i \in 1..Len(Items(params)) : ~IsDict(Items(params)[i])
    IN IF fails THEN ReturnedNone
       ELSE Built(Element("microflow",
              <<Attr("name", Get(microflow_config, "name", PyStr(<<"UnknownMicroflow">>))),
                Attr("type", Get(microflow_config, "type", PyStr(<<"action">>)))>>,
              PyNone,
              <<Comment(microflow_header_comment(microflow_config, now))>>
              \o Opt(Has(microflow_config, "description"),
                  <<Element("documentation", <<>>,
                            PyStr(microflow_documentation(microflow_config)), <<>>)>>)
              \o Opt(hasParams,
                  <<Element("parameters", <<>>, PyNone,
                      <<Comment(<<" INPUT PARAMETERS - ", ToString(Len(Items(params))),
                                  " parameters defined ">>)>>
                      \o Flatten([i \in 1..Len(Items(params)) |->
                                    microflow_parameter(Items(params)[i], i)]))>>)
              \o Opt(Has(microflow_config, "return_type"),
                  <<Element("returnType",
                      <<Attr("type", Item(microflow_config, "return_type"))>>, PyNone,
                      <<Comment(<<" RETURN TYPE: ">>
                                \o StrOf(Item(microflow_config, "return_type"))
                                \o <<" - Document what this microflow returns ">>)>>)>>)
              \o Opt(Has(microflow_config, "security_roles"),
                  <<Element("security", <<>>, PyNone,
                      <<Comment(<<" SECURITY CONFIGURATION - Restricted to: ">>
                                \o Join(roles) \o <<" ">>)>>
                      \o [i \in 1..Len(Items(roles)) |->
                            Element("allowedRole", <<Attr("name", Items(roles)[i])>>, PyNone,
                              <<Comment(<<" Role: ">> \o StrOf(Items(roles)[i])
                                        \o <<" - Ensure users have this role to execute microflow ">>)>>)])>>)
              \o <<microflow_flow,
                   Comment(<<"\nIMPLEMENTATION CHECKLIST for ">>
                           \o StrOf(Get(microflow_config, "name", PyStr(<<"Unknown">>)))
                           \o <<":\n\nMendix 10.18.1 Best Practices:\n">>)>>))

(***************************************************************************)
(* generate-domain-model.py: the two builders format the document text     *)
(* directly, with no escaping; their result is the document as written: a  *)
(* node whose attribute values and texts are the tokens put in the file.   *)
(***************************************************************************)
TextNode(tag, attrs, text, kids) ==
  [tag |-> tag, attrs |-> attrs, text |-> text, kids |-> kids]

type_mapping(attr_type) ==
  IF attr_type = PyStr(<<"Enum">>) THEN <<"Enumeration">>
  ELSE IF attr_type \in {PyStr(<<"String">>), PyStr(<<"Integer">>), PyStr(<<"Boolean">>),
                         PyStr(<<"DateTime">>), PyStr(<<"Decimal">>)}
       THEN attr_type.v
  ELSE <<"String">>

entity_attribute(attr) ==
  LET attr_name == StrOf(Item(attr, "name"))
      attr_desc == StrOf(Get(attr, "description", PyStr(attr_name \o <<" attribute">>)))
      mendix_type == type_mapping(Item(attr, "type"))
  IN TextNode("attribute",
       <<Attr("name", attr_name), Attr("type", mendix_type)>>, <<>>,
       <<TextNode("documentation", <<>>, attr_desc, <<>>)>>
       \o Opt(mendix_type = <<"String">>, <<TextNode("value", <<>>, <<>>, <<>>)>>)
       \o Opt(mendix_type = <<"Enumeration">>,
              <<TextNode("enumeration", <<>>,
                  StrOf(Get(attr, "enum_name", PyStr(attr_name \o <<"Enum">>))), <<>>)>>))

\* the result of a formatting builder: the document, or the exception it raises
Formatted(node) == [st |-> "ok", el |-> node]
FormatRaised == [st |-> "raise", el |-> TextNode("", <<>>, <<>>, <<>>)]

generate_entity_xml(entity_name, attributes, generalization) ==
  IF \/ ~Iterable(attributes)
     \/ \E i \in 1..Len(Items(attributes)) :
           \/ ~IsDict(Items(attributes)[i])             \* attr['type'] on a non-mapping
           \/ ~Has(Items(attributes)[i], "type")        \* KeyError
           \/ ~Has(Items(attributes)[i], "name")        \* KeyError
           \/ Item(Items(attributes)[i], "type").t \in {"list", "dict"}  \* unhashable
  THEN FormatRaised
  ELSE Formatted(TextNode("entity",
         <<Attr("xmlns", <<"http://www.mendix.com/metamodel/Domain/7.0.0">>),
           Attr("xmlns:xsi", <<"http://www.w3.org/2001/XMLSchema", "-", "instance">>),
           Attr("name", StrOf(entity_name))>>, <<>>,
         <<TextNode("documentation", <<>>,
              <<"LAB Workflow Entity: ">> \o StrOf(entity_name)
              \o <<" ", "-", " Generated for Mendix 10.18.1">>, <<>>)>>
         \o Opt(Truthy(generalization),
              <<TextNode("generalization", <<>>, <<"System.">> \o StrOf(generalization), <<>>)>>)
         \o <<TextNode("attributes", <<>>, <<>>,
                [i \in 1..Len(Items(attributes)) |-> entity_attribute(Items(attributes)[i])]),
              TextNode("associations", <<>>, <<>>, <<>>),
              TextNode("indexes", <<>>, <<>>, <<>>),
              TextNode("rules", <<>>, <<>>, <<>>),
              TextNode("eventHandlers", <<>>, <<>>, <<>>)>>))

domain_enumeration_xml(enum_name, values) ==
  IF \/ ~Iterable(values)
     \/ \E i \in 1..Len(Items(values)) :
           \/ ~IsDict(Items(values)[i])
           \/ ~Has(Items(values)[i], "name")
           \/ ~Has(Items(values)[i], "caption")
  THEN FormatRaised
  ELSE Formatted(TextNode("enumeration",
         <<Attr("xmlns", <<"http://www.mendix.com/metamodel/Domain/7.0.0">>),
           Attr("xmlns:xsi", <<"http://www.w3.org/2001/XMLSchema", "-", "instance">>),
           Attr("name", StrOf(enum_name))>>, <<>>,
         <<TextNode("documentation", <<>>,
              <<"LAB Workflow Enumeration: ">> \o StrOf(enum_name), <<>>),
           TextNode("values", <<>>, <<>>,
              [i \in 1..Len(Items(values)) |->
                 TextNode("value", <<Attr("name", StrOf(Item(Items(values)[i], "name")))>>, <<>>,
                   <<TextNode("caption",
                       <<Attr("defaultValue", StrOf(Item(Items(values)[i], "caption")))>>,
                       <<>>, <<>>)>>)])>>))

(***************************************************************************)
(* format_xml_output: ET.tostring, minidom.parseString, toprettyxml.       *)
(* A serialized node has the shape of an element with token sequences in   *)
(* place of the Python values.  Indentation is not modelled.               *)
(***************************************************************************)
\* xml.etree.ElementTree._escape_cdata
escape_cdata(s) ==
  [i \in 1..Len(s) |->
     CASE s[i] = "&" -> "&amp;" [] s[i] = "<" -> "&lt;" [] s[i] = ">" -> "&gt;"
       [] OTHER -> s[i]]
\* xml.etree.ElementTree._escape_attrib
escape_attrib(s) ==
  [i \in 1..Len(s) |->
     CASE s[i] = "&" -> "&amp;" [] s[i] = "<" -> "&lt;" [] s[i] = ">" -> "&gt;"
       [] s[i] = "\"" -> "&quot;" [] OTHER -> s[i]]
\* the parser's replacement of the predefined entity references
unescape(s) ==
  [i \in 1..Len(s) |->
     CASE s[i] = "&amp;" -> "&" [] s[i] = "&lt;" -> "<" [] s[i] = "&gt;" -> ">"
       [] s[i] = "&quot;" -> "\"" [] OTHER -> s[i]]
\* xml.dom.minidom._write_data
write_data(s) ==
  [i \in 1..Len(s) |->
     CASE s[i] = "&" -> "&amp;" [] s[i] = "<" -> "&lt;" [] s[i] = "\"" -> "&quot;"
       [] s[i] = ">" -> "&gt;" [] OTHER -> s[i]]

\* ET.tostring raises TypeError on an attribute value that is a number or None,
\* and on a text that is neither a string nor false
RECURSIVE Serializable(_)
Serializable(el) ==
  /\ \A i \in 1..Len(el.attrs) : el.attrs[i].x.t \in {"str", "list", "dict"}
  /\ IsStr(el.text) \/ ~Truthy(el.text)
  /\ \A i \in 1..Len(el.kids) : Serializable(el.kids[i])

\* ET.tostring: text and attribute values escaped, a comment's text as it is
RECURSIVE tostring(_)
tostring(el) ==
  [tag |-> el.tag,
   attrs |-> [i \in 1..Len(el.attrs) |->
                Attr(el.attrs[i].k,
                     IF IsStr(el.attrs[i].x) THEN escape_attrib(el.attrs[i].x.v)
                     ELSE StrOf(el.attrs[i].x))],
   text |-> IF ~IsStr(el.text) THEN <<>>
            ELSE IF el.tag = "#comment" THEN el.text.v
            ELSE escape_cdata(el.text.v),
   kids |-> [i \in 1..Len(el.kids) |-> tostring(el.kids[i])]]

\* two adjacent hyphens, or a hyphen at the end: not allowed in a comment
BadComment(s) ==
  \/ \E i \in 1..(Len(s) - 1) : s[i] = "-" /\ s[i + 1] = "-"
  \/ Len(s) > 0 /\ s[Len(s)] = "-"

\* what an XML parser accepts: no raw & or < in a text, none of & < " in an
\* attribute value, a legal comment text; the markup itself is well nested
\* by construction
RECURSIVE WellFormedNode(_)
WellFormedNode(n) ==
  /\ \A i \in 1..Len(n.attrs) :
        \A j \in 1..Len(n.attrs[i].x) : n.attrs[i].x[j] \notin {"&", "<", "\""}
  /\ IF n.tag = "#comment" THEN ~BadComment(n.text)
     ELSE \A j \in 1..Len(n.text) : n.text[j] \notin {"&", "<"}
  /\ \A i \in 1..Len(n.kids) : WellFormedNode(n.kids[i])

\* minidom.parseString followed by toprettyxml: references replaced, then
\* written again with minidom's escaping
RECURSIVE reparsed_pretty(_)
reparsed_pretty(n) ==
  [tag |-> n.tag,
   attrs |-> [i \in 1..Len(n.attrs) |->
                Attr(n.attrs[i].k, write_data(unescape(n.attrs[i].x)))],
   text |-> IF n.tag = "#comment" THEN n.text ELSE write_data(unescape(n.text)),
   kids |-> [i \in 1..Len(n.kids) |-> reparsed_pretty(n.kids[i])]]

format_xml_output(element) ==
  IF ~Serializable(element) THEN FormatRaised             \* TypeError in tostring
  ELSE IF ~WellFormedNode(tostring(element)) THEN FormatRaised  \* ExpatError
  ELSE Formatted(reparsed_pretty(tostring(element)))

(***************************************************************************)
(* Files.  A path is <<directory, file name>>; the content of a file is    *)
(* the XML declaration (or not) and the nodes written after it.            *)
(***************************************************************************)
\* create_mendix_xml_header() written, nothing after it yet
HeaderOnly == [decl |-> TRUE, body |-> <<>>]
\* header and serialized root
Document(node) == [decl |-> TRUE, body |-> <<node>>]
\* a text file that is no XML document (a summary, a diagram)
TextFile(tokens) == [decl |-> FALSE, body |-> <<TextNode("#text", <<>>, tokens, <<>>)>>]

\* the document parses: one root element, well formed
WellFormedDocument(doc) == Len(doc.body) = 1 /\ WellFormedNode(doc.body[1])

XmlPath(dir, name) == <<dir, StrOf(name) \o <<".xml">>>>
IsXmlPath(p) == Len(p[2]) > 0 /\ p[2][Len(p[2])] = ".xml"

\* open(path, 'w') and the writes that follow: the file holds exactly `doc`
WriteFile(files, path, doc) ==
  [p \in (DOMAIN files) \cup {path} |-> IF p = path THEN doc ELSE files[p]]

(***************************************************************************)
(* The six generators.                                                     *)
(***************************************************************************)
Fallback == {"enumerations", "microflows", "pages", "security", "workflows"}
Generators == Fallback \cup {"domain-model"}

\* the top-level key of the configuration each generator reads
ConfigKey(kind) ==
  CASE kind = "enumerations" -> "enumerations"
    [] kind = "microflows" -> "microflows"
    [] kind = "pages" -> "pages"
    [] kind = "security" -> "security_roles"
    [] kind = "workflows" -> "workflows"
    [] OTHER -> "entities"

\* the default of --output
OutputDir(kind) ==
  CASE kind = "enumerations" -> "output/enumerations"
    [] kind = "microflows" -> "output/microflows"
    [] kind = "pages" -> "output/pages"
    [] kind = "security" -> "output/security"
    [] kind = "workflows" -> "output/workflows"
    [] OTHER -> "output"

get_default_config(kind) ==
  CASE kind = "enumerations" -> get_default_enumerations_config
    [] kind = "microflows" -> get_default_microflows_config
    [] kind = "pages" -> get_default_pages_config
    [] kind = "security" -> get_default_security_config
    [] OTHER -> get_default_workflow_config

\* alternative_paths of each load_config, in the order they are tried
alternative_paths(kind) ==
  <<"config/lab-workflow-config.yaml",
    CASE kind = "security" -> "config/security-config.yaml"
      [] kind = "workflows" -> "config/workflow-config.yaml"
      [] OTHER -> "config/domain-model-config.yaml",
    "../config/lab-workflow-config.yaml">>

(***************************************************************************)
(* Configuration files.  What is at a path: nothing, a file yaml cannot    *)
(* parse, or a file that parses to a value.                                *)
(***************************************************************************)
Missing == [st |-> "missing", val |-> PyNone]
Unparsable == [st |-> "unparsable", val |-> PyNone]
Parsed(val) == [st |-> "parsed", val |-> val]

\* What load_config ends in: the value returned (None after an error), the
\* paths it opened, and whether it ended the process (sys.exit(1)).
Loaded(val, opened) == [val |-> val, opened |-> opened, exited |-> FALSE]
LoadExit(opened) == [val |-> PyNone, opened |-> opened, exited |-> TRUE]

\* the first alternative path that exists, or 0
FirstExisting(alternatives) ==
  IF \E i \in 1..Len(alternatives) : alternatives[i].st # "missing"
  THEN CHOOSE i \in 1..Len(alternatives) :
         /\ alternatives[i].st # "missing"
         /\ \A j \in 1..(i - 1) : alternatives[j].st = "missing"
  ELSE 0

\* A loader that skips whatever does not parse, the requested path
\* included, and goes on down the chain to the default.
load_config_skipping(kind, requested, alternatives) ==
  IF requested.st = "parsed" THEN Loaded(requested.val, <<"requested">>)
  ELSE IF \E i \in 1..Len(alternatives) : alternatives[i].st = "parsed"
  THEN LET i == CHOOSE k \in 1..Len(alternatives) :
                  /\ alternatives[k].st = "parsed"
                  /\ \A j \in 1..(k - 1) : alternatives[j].st # "parsed"
       IN Loaded(alternatives[i].val, <<alternative_paths(kind)[i]>>)
  ELSE Loaded(get_default_config(kind), <<>>)

\* the same without the built-in default at the end of the chain
load_config_without_default(kind, requested, alternatives) ==
  IF requested.st = "parsed" THEN Loaded(requested.val, <<"requested">>)
  ELSE IF requested.st = "unparsable" THEN Loaded(PyNone, <<"requested">>)
  ELSE LET i == FirstExisting(alternatives)
       IN IF i = 0 THEN Loaded(PyNone, <<>>)
          ELSE IF alternatives[i].st = "parsed"
               THEN Loaded(alternatives[i].val, <<alternative_paths(kind)[i]>>)
               ELSE Loaded(PyNone, <<alternative_paths(kind)[i]>>)

\* load_config of the five generators with a fallback chain.  Every
\* exception, from any open or parse, ends in the one except clause: None.
load_config(kind, requested, alternatives) ==
  IF requested.st = "parsed" THEN Loaded(requested.val, <<"requested">>)
  ELSE IF requested.st = "unparsable" THEN Loaded(PyNone, <<"requested">>)
  ELSE LET i == FirstExisting(alternatives)
       IN IF i = 0 THEN Loaded(get_default_config(kind), <<>>)
          ELSE IF alternatives[i].st = "parsed"
               THEN Loaded(alternatives[i].val, <<alternative_paths(kind)[i]>>)
               ELSE Loaded(PyNone, <<alternative_paths(kind)[i]>>)

\* load_config of generate-domain-model.py: no fallback, no default
domain_load_config(requested) ==
  IF requested.st = "parsed" THEN Loaded(requested.val, <<"requested">>)
  ELSE IF requested.st = "unparsable" THEN LoadExit(<<"requested">>)
  ELSE LoadExit(<<>>)

(***************************************************************************)
(* The loop body of main, for the five generators that build an element    *)
(* tree.  A run state holds the files, the count of successes, the error   *)
(* lines printed for records, the paths opened for writing, whether an     *)
(* exception has left main, and the paths at which open(path, 'w') raises  *)
(* OSError.                                                                *)
(***************************************************************************)
RunState(files) ==
  [fs |-> files, generated_count |-> 0, errors |-> 0, touched |-> {}, aborted |-> FALSE,
   readonly |-> {}]

build(kind, record, now) ==
  CASE kind = "enumerations" -> generate_enumeration_xml(record)
    [] kind = "microflows" -> generate_microflow_xml(record, now)
    [] kind = "pages" -> generate_page_xml(record)
    [] kind = "security" -> generate_security_role_xml(record)
    [] OTHER -> generate_workflow_xml(record)

\* create_workflow_diagram: a fixed text
DiagramPath == <<OutputDir("workflows"), <<"WORKFLOW_DIAGRAM.md">>>>
create_workflow_diagram(files) ==
  WriteFile(files, DiagramPath, TextFile(<<"# LAB Product Validation Workflow Diagram">>))

\* a variant that looks up, before it builds, the roles a page names, the
\* pages a role names and the pages the steps of a workflow name
process_record_resolving(kind, rs, record, now) ==
  IF ~IsDict(record)
  THEN [rs EXCEPT !.aborted = TRUE]
  ELSE
    LET name == Get(record, "name", PyStr(<<"Unknown">>))
        xml == build(kind, record, now)
        path == XmlPath(OutputDir(kind), name)
        text == format_xml_output(xml.el)
        named == CASE kind = "pages" -> Get(record, "security_roles", PyList(<<>>))
                   [] kind = "security" ->
                        Get(Get(record, "permissions", PyNone), "page_access", PyList(<<>>))
                   [] kind = "workflows" ->
                        LET steps == Get(record, "steps", PyList(<<>>))
                        IN PyList(IF IsList(steps)
                                  THEN [i \in 1..Len(steps.v) |-> Get(steps.v[i], "page", PyNone)]
                                  ELSE <<>>)
                   [] OTHER -> PyList(<<>>)
        dangling == /\ IsList(named)
                    /\ \E i \in 1..Len(named.v) :
                         /\ IsStr(named.v[i])
                         /\ XmlPath(OutputDir(IF kind = "pages" THEN "security" ELSE "pages"),
                                    named.v[i]) \notin DOMAIN rs.fs
    IN IF xml.st # "ok" \/ dangling
       THEN [rs EXCEPT !.errors = @ + 1]
       ELSE IF path \in rs.readonly
       THEN [rs EXCEPT !.errors = @ + 1]
       ELSE IF text.st # "ok"
       THEN [rs EXCEPT !.fs = WriteFile(@, path, HeaderOnly),
                       !.touched = @ \cup {path},
                       !.errors = @ + 1]
       ELSE [rs EXCEPT !.fs = IF kind = "workflows"
                               THEN create_workflow_diagram(
                                      WriteFile(@, path, Document(text.el)))
                               ELSE WriteFile(@, path, Document(text.el)),
                       !.touched = IF kind = "workflows"
                                   THEN @ \cup {path, DiagramPath} ELSE @ \cup {path},
                       !.generated_count = @ + 1]

process_record(kind, rs, record, now) ==
  IF ~IsDict(record)
  THEN \* record.get raises in the try block and again in the except clause
       [rs EXCEPT !.aborted = TRUE]
  ELSE
    LET name == Get(record, "name", PyStr(<<"Unknown">>))
        xml == build(kind, record, now)
        path == XmlPath(OutputDir(kind), name)
        text == format_xml_output(xml.el)
    IN IF xml.st # "ok"
       THEN [rs EXCEPT !.errors = @ + 1]
       ELSE IF path \in rs.readonly
       THEN \* open raises inside the try block
            [rs EXCEPT !.errors = @ + 1]
       ELSE IF text.st # "ok"
       THEN \* the file is open and holds the header when serialization raises
            [rs EXCEPT !.fs = WriteFile(@, path, HeaderOnly),
                       !.touched = @ \cup {path},
                       !.errors = @ + 1]
       ELSE [rs EXCEPT !.fs = IF kind = "workflows"
                               THEN create_workflow_diagram(
                                      WriteFile(@, path, Document(text.el)))
                               ELSE WriteFile(@, path, Document(text.el)),
                       !.touched = IF kind = "workflows"
                                   THEN @ \cup {path, DiagramPath} ELSE @ \cup {path},
                       !.generated_count = @ + 1]

(***************************************************************************)
(* The summaries written after the loop.                                   *)
(***************************************************************************)
HasSummary(kind) == kind \in {"enumerations", "security"}
SummaryPath(kind) ==
  <<OutputDir(kind),
    IF kind = "security" THEN <<"SECURITY_SUMMARY.md">> ELSE <<"ENUMERATIONS_SUMMARY.md">>>>

enumeration_summary_raises(enum) ==
  \/ ~Has(enum, "name")
  \/ /\ Has(enum, "values") /\ Truthy(Item(enum, "values"))
     /\ \/ ~Iterable(Item(enum, "values"))
        \/ \E i \in 1..Len(Items(Item(enum, "values"))) :
              ~IsDict(Items(Item(enum, "values"))[i])

enumeration_summary_rows(enum) ==
  StrOf(Item(enum, "name"))
  \o StrOf(Get(enum, "description", PyStr(<<"No description">>)))
  \o Opt(Has(enum, "values") /\ Truthy(Item(enum, "values")),
         Flatten([i \in 1..Len(Items(Item(enum, "values"))) |->
           LET value == Items(Item(enum, "values"))[i]
               name == Get(value, "name", PyStr(<<"Unknown">>))
           IN StrOf(name) \o StrOf(Get(value, "caption", name))
              \o StrOf(Get(value, "description", PyStr(<<"No description">>)))]))

create_enumerations_summary(enums_config, now) ==
  IF \E i \in 1..Len(enums_config) : enumeration_summary_raises(enums_config[i])
  THEN FormatRaised
  ELSE Formatted(TextNode("#text", <<>>,
         <<"# LAB Workflow Enumerations Summary">> \o Timestamp(now)
         \o Flatten([i \in 1..Len(enums_config) |-> enumeration_summary_rows(enums_config[i])]),
         <<>>))

security_summary_raises(role) ==
  \/ ~Has(role, "name")
  \/ /\ Has(role, "permissions")
     /\ LET permissions == Item(role, "permissions")
        IN \/ ~SupportsIn(permissions)
           \/ ~IsDict(permissions)
                /\ \E key \in {"entity_access", "page_access", "microflow_access"} :
                      Contains(permissions, key)
           \/ /\ Has(permissions, "entity_access")
              /\ \/ ~IsDict(Item(permissions, "entity_access"))
                 \/ \E i \in 1..Len(Item(permissions, "entity_access").v) :
                       Item(permissions, "entity_access").v[i].x.t \notin {"str", "dict"}
           \/ Has(permissions, "page_access") /\ ~Iterable(Item(permissions, "page_access"))
           \/ Has(permissions, "microflow_access")
                /\ ~Iterable(Item(permissions, "microflow_access"))

security_summary_rows(role) ==
  StrOf(Item(role, "name"))
  \o StrOf(Get(role, "description", PyStr(<<"No description">>)))
  \o Opt(Has(role, "permissions"),
       LET permissions == Item(role, "permissions")
       IN Opt(Has(permissions, "entity_access"),
             Flatten([i \in 1..Len(Item(permissions, "entity_access").v) |->
               LET pair == Item(permissions, "entity_access").v[i]
               IN <<pair.k>>
                  \o (IF IsStr(pair.x) THEN pair.x.v
                      ELSE StrOf(Get(pair.x, "access", PyStr(<<"R">>)))
                           \o Opt(Truthy(Get(pair.x, "xpath", PyNone)),
                                  StrOf(Get(pair.x, "xpath", PyNone))))]))
          \o Opt(Has(permissions, "page_access"),
               Flatten([i \in 1..Len(Items(Item(permissions, "page_access"))) |->
                          StrOf(Items(Item(permissions, "page_access"))[i])]))
          \o Opt(Has(permissions, "microflow_access"),
               Flatten([i \in 1..Len(Items(Item(permissions, "microflow_access"))) |->
                          StrOf(Items(Item(permissions, "microflow_access"))[i])])))

create_security_summary(roles_config, now) ==
  IF \E i \in 1..Len(roles_config) : security_summary_raises(roles_config[i])
  THEN FormatRaised
  ELSE Formatted(TextNode("#text", <<>>,
         <<"# LAB Workflow Security Configuration Summary">> \o Timestamp(now)
         \o Flatten([i \in 1..Len(roles_config) |-> security_summary_rows(roles_config[i])]),
         <<>>))

create_summary(kind, records, now) ==
  IF kind = "security" THEN create_security_summary(records, now)
  ELSE create_enumerations_summary(records, now)

\* the rest of main after the loop
finish_run(kind, rs, records, now) ==
  IF ~HasSummary(kind) THEN rs
  ELSE LET summary == create_summary(kind, records, now)
       IN IF summary.st # "ok" THEN [rs EXCEPT !.aborted = TRUE]
          ELSE [rs EXCEPT !.fs = WriteFile(@, SummaryPath(kind),
                                           [decl |-> FALSE, body |-> <<summary.el>>]),
                          !.touched = @ \cup {SummaryPath(kind)}]

\* a whole run over `records`, from the loop to the end of main
RECURSIVE run_from(_, _, _, _, _)
run_from(kind, rs, records, i, now) ==
  IF rs.aborted THEN rs
  ELSE IF i > Len(records) THEN finish_run(kind, rs, records, now)
  ELSE run_from(kind, process_record(kind, rs, records[i], now), records, i + 1, now)

(***************************************************************************)
(* generate-domain-model.py writes the entities and enumerations listed in *)
(* its main, whatever the configuration holds.                             *)
(***************************************************************************)
DomainDir == "output/domain-model"
EnumDir == "output/enumerations"

write_entity(rs, entity) ==
  LET xml_content == generate_entity_xml(Item(entity, "name"), Item(entity, "attributes"),
                                         Get(entity, "generalization", PyNone))
      path == XmlPath(DomainDir, Item(entity, "name"))
  IN IF xml_content.st # "ok" \/ path \in rs.readonly THEN [rs EXCEPT !.aborted = TRUE]
     ELSE [rs EXCEPT !.fs = WriteFile(@, path, Document(xml_content.el)),
                     !.touched = @ \cup {path},
                     !.generated_count = @ + 1]

\* a write_enumeration that keeps a file that is already there
write_enumeration_keeping(rs, enum) ==
  LET xml_content == domain_enumeration_xml(Item(enum, "name"), Item(enum, "values"))
      path == XmlPath(EnumDir, Item(enum, "name"))
  IN IF xml_content.st # "ok" \/ path \in rs.readonly THEN [rs EXCEPT !.aborted = TRUE]
     ELSE [rs EXCEPT !.fs = IF path \in DOMAIN @ THEN @
                             ELSE WriteFile(@, path, Document(xml_content.el)),
                     !.touched = @ \cup {path},
                     !.generated_count = @ + 1]

write_enumeration(rs, enum) ==
  LET xml_content == domain_enumeration_xml(Item(enum, "name"), Item(enum, "values"))
      path == XmlPath(EnumDir, Item(enum, "name"))
  IN IF xml_content.st # "ok" \/ path \in rs.readonly THEN [rs EXCEPT !.aborted = TRUE]
     ELSE [rs EXCEPT !.fs = WriteFile(@, path, Document(xml_content.el)),
                     !.touched = @ \cup {path},
                     !.generated_count = @ + 1]

RECURSIVE domain_run_from(_, _)
domain_run_from(rs, i) ==
  IF rs.aborted \/ i > Len(entities.v) + Len(enumerations.v) THEN rs
  ELSE IF i <= Len(entities.v) THEN domain_run_from(write_entity(rs, entities.v[i]), i + 1)
  ELSE domain_run_from(write_enumeration(rs, enumerations.v[i - Len(entities.v)]), i + 1)

(***************************************************************************)
(* Inputs.  The records a configuration is drawn from: for each generator  *)
(* a full record, a minimal one, one whose builder fails, one whose        *)
(* serialization fails, and an item that is no mapping; for pages also a   *)
(* record named like the full one whose serialization fails.               *)
(***************************************************************************)
Named(name, fields) == PyDict(<<KV("name", name)>> \o fields)
NonMapping == PyStr(<<"oops">>)

RecordPool(kind) ==
  CASE kind = "enumerations" ->
         <<Named(PyStr(<<"A">>),
             <<KV("description", PyStr(<<"first">>)),
               KV("values", PyList(<<PyDict(<<KV("name", PyStr(<<"V">>)),
                                              KV("caption", PyStr(<<"v">>))>>)>>))>>),
           Named(PyStr(<<"B">>), <<>>),
           Named(PyStr(<<"C">>), <<KV("values", PyList(<<PyInt(5)>>))>>),
           Named(PyInt(7), <<>>),
           NonMapping>>
    [] kind = "microflows" ->
         <<Named(PyStr(<<"A">>),
             <<KV("description", PyStr(<<"first">>)),
               KV("parameters", PyList(<<PyDict(<<KV("name", PyStr(<<"p">>))>>)>>)),
               KV("security_roles", PyList(<<PyStr(<<"LABAdmin">>)>>))>>),
           Named(PyStr(<<"B">>), <<>>),
           Named(PyStr(<<"C">>), <<KV("parameters", PyInt(5))>>),
           Named(PyInt(7), <<>>),
           NonMapping>>
    [] kind = "pages" ->
         <<Named(PyStr(<<"A">>),
             <<KV("description", PyStr(<<"first">>)),
               KV("security_roles", PyList(<<PyStr(<<"LABAdmin">>)>>)),
               KV("components", PyList(<<PyDict(<<KV("type", PyStr(<<"DataGrid">>)),
                                                  KV("title", PyStr(<<"t">>)),
                                                  KV("action", PyStr(<<"M">>))>>)>>))>>),
           Named(PyStr(<<"B">>), <<>>),
           Named(PyStr(<<"C">>), <<KV("components", PyInt(5))>>),
           Named(PyInt(7), <<>>),
           NonMapping,
           Named(PyStr(<<"A">>), <<KV("description", PyInt(5))>>)>>
    [] kind = "security" ->
         <<Named(PyStr(<<"A">>),
             <<KV("description", PyStr(<<"first">>)),
               KV("permissions", PyDict(<<
                  KV("entity_access", PyDict(<<KV("E", PyStr(<<"CRUD">>))>>)),
                  KV("page_access", PyList(<<PyStr(<<"P">>)>>))>>))>>),
           Named(PyStr(<<"B">>), <<>>),
           Named(PyStr(<<"C">>), <<KV("permissions", PyInt(5))>>),
           Named(PyInt(7), <<>>),
           NonMapping>>
    [] OTHER ->
         <<Named(PyStr(<<"A">>),
             <<KV("description", PyStr(<<"first">>)),
               KV("steps", PyList(<<PyDict(<<KV("name", PyStr(<<"s">>)),
                                             KV("type", PyStr(<<"UserTask">>)),
                                             KV("page", PyStr(<<"P">>)),
                                             KV("microflow", PyStr(<<"M">>))>>)>>)),
               KV("flows", PyList(<<PyDict(<<KV("from", PyStr(<<"Start">>)),
                                             KV("to", PyStr(<<"s">>))>>)>>))>>),
           Named(PyStr(<<"B">>), <<>>),
           Named(PyStr(<<"C">>), <<KV("steps", PyInt(5))>>),
           Named(PyInt(7), <<>>),
           NonMapping>>

\* lists of at most n records of the pool
RECURSIVE RecordLists(_, _)
RecordLists(kind, n) ==
  IF n = 0 THEN {<<>>}
  ELSE RecordLists(kind, n - 1)
       \cup {Append(l, RecordPool(kind)[i]) :
               l \in {m \in RecordLists(kind, n - 1) : Len(m) = n - 1},
               i \in 1..Len(RecordPool(kind))}

Config(kind, records) == PyDict(<<KV(ConfigKey(kind), PyList(records))>>)

\* a configuration for generate-domain-model.py naming an entity of its own
WidgetConfig ==
  PyDict(<<KV("entities", PyList(<<
    PyDict(<<KV("name", PyStr(<<"Widget">>)),
             KV("attributes", PyList(<<PyDict(<<KV("name", PyStr(<<"Code">>)),
                                                KV("type", PyStr(<<"String">>))>>)>>))>>)>>))>>)

\* what a YAML document can parse to
ParsedValues(kind) ==
  IF kind = "domain-model" THEN {WidgetConfig, PyDict(<<>>)}
  ELSE {Config(kind, l) : l \in RecordLists(kind, MaxRecords)}
       \cup {PyDict(<<>>), PyNone, PyInt(5), PyDict(<<KV(ConfigKey(kind), PyInt(5))>>)}

\* the file every present alternative path holds in the model
AlternativeConfig(kind) ==
  IF kind = "domain-model" THEN WidgetConfig ELSE Config(kind, <<RecordPool(kind)[2]>>)

AlternativeStates(kind) ==
  [1..3 -> {Missing, Unparsable, Parsed(AlternativeConfig(kind))}]

\* the artifacts of other kinds that record A of the pool names: the role and
\* the microflow of a page, the page and the entity of a role, the page and
\* the microflow of a workflow step
ReferencedPaths(kind) ==
  CASE kind = "pages" -> {XmlPath(OutputDir("security"), PyStr(<<"LABAdmin">>)),
                          XmlPath(OutputDir("microflows"), PyStr(<<"M">>))}
    [] kind = "security" -> {XmlPath(OutputDir("pages"), PyStr(<<"P">>)),
                             XmlPath(DomainDir, PyStr(<<"E">>))}
    [] kind = "workflows" -> {XmlPath(OutputDir("pages"), PyStr(<<"P">>)),
                              XmlPath(OutputDir("microflows"), PyStr(<<"M">>))}
    [] OTHER -> {}

\* the files earlier runs left behind: nothing, the files of an earlier run
\* of the same generator, or the artifacts record A refers to
PriorFiles(kind) ==
  IF kind = "domain-model"
  THEN {<<>>, domain_run_from(RunState(<<>>), 1).fs}
  ELSE {<<>>} \cup {run_from(kind, RunState(<<>>), <<RecordPool(kind)[i]>>, 1, 0).fs :
                      i \in 1..Len(RecordPool(kind))}
       \cup (IF ReferencedPaths(kind) = {} THEN {}
             ELSE {[p \in ReferencedPaths(kind) |->
                      Document(TextNode("generated", <<>>, <<"a">>, <<>>))]})


(***************************************************************************)
(* One run of one generator.                                               *)
(***************************************************************************)
VARIABLES
  kind,          \* which script runs
  requested,     \* what is at the path given by --config
  alternatives,  \* what is at each alternative path
  fs0,           \* the files before the run
  rs,            \* the run state: files, counts, paths opened for writing
  dirs,          \* directories created by the run
  pc,            \* "start", "loop", "entities", "enumerations", "finish", "done"
  config,        \* what load_config returned
  opened,        \* the configuration paths load_config opened
  idx,           \* position of the loop
  exit_code,     \* -1 while running
  clock,         \* datetime.now(), in seconds
  b_record,      \* SpecBuild: the record built
  b_pc,          \* SpecBuild: "idle", "first", "second", "done"
  b_first,       \* SpecBuild: result and time of the first build
  b_second,      \* SpecBuild: result and time of the second build
  args,          \* packager, validator: the command line
  tally,         \* validator: the result of each category, all_passed, total_issues
  archive,       \* packager: the archive file, its entries when it exists
  position,      \* workflow: the step each run of the workflow is at
  taken,         \* workflow: the outcomes each run chose, <<step, outcome>> in order
  ran            \* runs into one output root: the generators run so far, in order

vars == <<kind, requested, alternatives, fs0, rs, dirs, pc, config, opened, idx,
          exit_code, clock, b_record, b_pc, b_first, b_second, args, tally, archive,
          position, taken, ran>>
runVars == <<kind, requested, alternatives, fs0, rs, dirs, pc, config, opened, idx, exit_code>>
buildVars == <<b_record, b_pc, b_first, b_second>>
toolVars == <<args, tally, archive, position, taken, ran>>

NoBuild == [st |-> "idle", doc |-> HeaderOnly, at |-> 0]

IdleBuild ==
  /\ b_record = PyNone
  /\ b_pc = "idle"
  /\ b_first = NoBuild
  /\ b_second = NoBuild

NoArchive == [exists |-> FALSE, entries |-> {}]
NoTally == [all_passed |-> TRUE, total_issues |-> 0, results |-> <<>>]
IdleTools ==
  /\ args = [output |-> "output", comprehensive |-> FALSE, verbose |-> FALSE]
  /\ tally = NoTally
  /\ archive = NoArchive
  /\ position = <<>>
  /\ taken = <<>>
  /\ ran = <<>>

Init ==
  /\ kind \in Generators
  /\ requested \in {Missing, Unparsable} \cup {Parsed(c) : c \in ParsedValues(kind)}
  /\ alternatives \in AlternativeStates(kind)
  \* the alternatives matter only when the requested path is missing
  /\ requested.st # "missing" =>
       \/ \A i \in 1..3 : alternatives[i] = Missing
       \/ \A i \in 1..3 : alternatives[i].st = "parsed"
  /\ fs0 \in PriorFiles(kind)
  \* every path can be opened for writing, or the file of one record cannot
  /\ \E readonly \in {{}, {IF kind = "domain-model"
                           THEN XmlPath(DomainDir, PyStr(<<"ImageAcquisition">>))
                           ELSE XmlPath(OutputDir(kind), PyStr(<<"A">>))}} :
       rs = [RunState(fs0) EXCEPT !.readonly = readonly]
  /\ dirs = {}
  /\ pc = "start"
  /\ config = PyNone
  /\ opened = <<>>
  /\ idx = 0
  /\ exit_code = -1
  /\ clock = 0
  /\ IdleBuild
  /\ IdleTools

\* the records the loop of main visits
Records == Items(Item(config, ConfigKey(kind)))

Exit(code) == pc' = "done" /\ exit_code' = code

\* main of the five generators, up to the loop: how load_config and the
\* test `key in config and config[key]` end
before_loop(config_value, key) ==
  IF config_value = PyNone THEN "load failed"                        \* return 1
  ELSE IF ~SupportsIn(config_value) THEN "raised"                    \* TypeError
  ELSE IF ~Contains(config_value, key) THEN "nothing to generate"    \* return 0
  ELSE IF ~IsDict(config_value) THEN "raised"                        \* TypeError
  ELSE IF ~Truthy(Item(config_value, key)) THEN "nothing to generate"
  ELSE IF ~Sized(Item(config_value, key)) THEN "raised"              \* len()
  ELSE "loop"

StartGenerator ==
  /\ pc = "start" /\ kind \in Fallback
  /\ LET loaded == load_config(kind, requested, alternatives)
         outcome == before_loop(loaded.val, ConfigKey(kind))
     IN /\ dirs' = dirs \cup {OutputDir(kind)}
        /\ config' = loaded.val
        /\ opened' = loaded.opened
        /\ rs' = [rs EXCEPT !.aborted = (outcome = "raised")]
        /\ IF outcome = "loop" THEN pc' = "loop" /\ idx' = 1 /\ exit_code' = exit_code
           ELSE Exit(IF outcome = "nothing to generate" THEN 0 ELSE 1) /\ idx' = idx
  /\ UNCHANGED <<kind, requested, alternatives, fs0, clock>>
  /\ UNCHANGED buildVars
  /\ UNCHANGED toolVars

\* one iteration of the loop of main
ProcessRecord ==
  /\ pc = "loop" /\ kind \in Fallback
  /\ rs' = process_record(kind, rs, Records[idx], clock)
  /\ IF rs'.aborted THEN Exit(1) /\ idx' = idx
     ELSE /\ idx' = idx + 1
          /\ pc' = IF idx + 1 > Len(Records) THEN "finish" ELSE "loop"
          /\ exit_code' = exit_code
  /\ UNCHANGED <<kind, requested, alternatives, fs0, dirs, config, opened, clock>>
  /\ UNCHANGED buildVars
  /\ UNCHANGED toolVars

\* the end of main: the summary where there is one, and the return
Finish ==
  /\ pc = "finish"
  /\ rs' = IF kind \in Fallback THEN finish_run(kind, rs, Records, clock) ELSE rs
  /\ Exit(IF rs'.aborted THEN 1 ELSE 0)
  /\ UNCHANGED <<kind, requested, alternatives, fs0, dirs, config, opened, idx, clock>>
  /\ UNCHANGED buildVars
  /\ UNCHANGED toolVars

\* main of generate-domain-model.py up to the first loop
StartDomainModel ==
  /\ pc = "start" /\ kind = "domain-model"
  /\ LET loaded == domain_load_config(requested)
     IN /\ config' = loaded.val
        /\ opened' = loaded.opened
        /\ IF loaded.exited THEN Exit(1) /\ UNCHANGED <<dirs, idx>>
           ELSE /\ dirs' = dirs \cup {DomainDir, EnumDir}
                /\ pc' = "entities" /\ idx' = 1 /\ exit_code' = exit_code
  /\ UNCHANGED <<kind, requested, alternatives, fs0, rs, clock>>
  /\ UNCHANGED buildVars
  /\ UNCHANGED toolVars

WriteEntity ==
  /\ pc = "entities"
  /\ rs' = write_entity(rs, entities.v[idx])
  /\ IF rs'.aborted THEN Exit(1) /\ idx' = idx
     ELSE IF idx = Len(entities.v)
          THEN pc' = "enumerations" /\ idx' = 1 /\ exit_code' = exit_code
          ELSE pc' = pc /\ idx' = idx + 1 /\ exit_code' = exit_code
  /\ UNCHANGED <<kind, requested, alternatives, fs0, dirs, config, opened, clock>>
  /\ UNCHANGED buildVars
  /\ UNCHANGED toolVars

WriteEnumeration ==
  /\ pc = "enumerations"
  /\ rs' = write_enumeration(rs, enumerations.v[idx])
  /\ IF rs'.aborted THEN Exit(1) /\ idx' = idx
     ELSE /\ idx' = idx + 1
          /\ pc' = IF idx = Len(enumerations.v) THEN "finish" ELSE pc
          /\ exit_code' = exit_code
  /\ UNCHANGED <<kind, requested, alternatives, fs0, dirs, config, opened, clock>>
  /\ UNCHANGED buildVars
  /\ UNCHANGED toolVars

\* a second passes while the generator runs
Tick ==
  /\ pc \notin {"done", "idle"}
  /\ clock < MaxClock
  /\ clock' = clock + 1
  /\ UNCHANGED runVars
  /\ UNCHANGED buildVars
  /\ UNCHANGED toolVars

Next ==
  \/ StartGenerator
  \/ ProcessRecord
  \/ Finish
  \/ StartDomainModel
  \/ WriteEntity
  \/ WriteEnumeration
  \/ Tick

Spec == Init /\ [][Next]_vars

(***************************************************************************)
(* The builders and the serializer on their own: one record, built and     *)
(* serialized twice, at two readings of the clock.                         *)
(***************************************************************************)
Builders == Generators \cup {"domain-enumerations"}

\* what building and serializing one record ends in
BuildResult(st, doc, now) == [st |-> st, doc |-> doc, at |-> now]

\* the calls main makes for one record, to the text it would write
serialize_build(record_kind, record, now) ==
  IF record_kind = "domain-model"
  THEN IF ~IsDict(record) \/ ~Has(record, "name") \/ ~Has(record, "attributes")
       THEN BuildResult("raise", HeaderOnly, now)
       ELSE LET xml_content == generate_entity_xml(Item(record, "name"),
                                 Item(record, "attributes"),
                                 Get(record, "generalization", PyNone))
            IN IF xml_content.st # "ok" THEN BuildResult("raise", HeaderOnly, now)
               ELSE BuildResult("ok", Document(xml_content.el), now)
  ELSE IF record_kind = "domain-enumerations"
  THEN IF ~IsDict(record) \/ ~Has(record, "name") \/ ~Has(record, "values")
       THEN BuildResult("raise", HeaderOnly, now)
       ELSE LET xml_content == domain_enumeration_xml(Item(record, "name"),
                                                      Item(record, "values"))
            IN IF xml_content.st # "ok" THEN BuildResult("raise", HeaderOnly, now)
               ELSE BuildResult("ok", Document(xml_content.el), now)
  ELSE LET xml == build(record_kind, record, now)
           text == format_xml_output(xml.el)
       IN IF xml.st # "ok" THEN BuildResult(xml.st, HeaderOnly, now)
          ELSE IF text.st # "ok" THEN BuildResult("raise", HeaderOnly, now)
          ELSE BuildResult("ok", Document(text.el), now)

\* free text: every sequence of at most n tokens of the alphabet
Alphabet == {"a", "&", "<", ">", "\"", "-"}
RECURSIVE Texts(_)
Texts(n) ==
  IF n = 0 THEN {<<>>}
  ELSE Texts(n - 1) \cup {Append(s, c) : s \in {u \in Texts(n - 1) : Len(u) = n - 1},
                                          c \in Alphabet}

\* a record whose name is the free text
TextInName(record_kind, text) ==
  CASE record_kind = "domain-model" ->
         Named(PyStr(text),
           <<KV("attributes", PyList(<<PyDict(<<KV("name", PyStr(<<"Code">>)),
                                               KV("type", PyStr(<<"String">>))>>)>>))>>)
    [] record_kind = "domain-enumerations" ->
         Named(PyStr(text),
           <<KV("values", PyList(<<PyDict(<<KV("name", PyStr(<<"V">>)),
                                            KV("caption", PyStr(<<"v">>))>>)>>))>>)
    [] OTHER -> Named(PyStr(text), <<>>)

\* a record whose description, and one text further in, is the free text
TextInDescription(record_kind, text) ==
  CASE record_kind = "domain-model" ->
         Named(PyStr(<<"A">>),
           <<KV("attributes", PyList(<<PyDict(<<KV("name", PyStr(<<"Code">>)),
                                               KV("type", PyStr(<<"String">>)),
                                               KV("description", PyStr(text))>>)>>))>>)
    [] record_kind = "domain-enumerations" ->
         Named(PyStr(<<"A">>),
           <<KV("values", PyList(<<PyDict(<<KV("name", PyStr(<<"V">>)),
                                            KV("caption", PyStr(text))>>)>>))>>)
    [] record_kind = "enumerations" ->
         Named(PyStr(<<"A">>),
           <<KV("description", PyStr(text)),
             KV("values", PyList(<<PyDict(<<KV("name", PyStr(<<"V">>)),
                                            KV("caption", PyStr(text))>>)>>))>>)
    [] record_kind = "microflows" ->
         Named(PyStr(<<"A">>),
           <<KV("description", PyStr(text)),
             KV("parameters", PyList(<<PyDict(<<KV("name", PyStr(<<"p">>)),
                                                KV("type", PyStr(<<"String">>)),
                                                KV("description", PyStr(text))>>)>>))>>)
    [] record_kind = "pages" ->
         Named(PyStr(<<"A">>),
           <<KV("description", PyStr(text)),
             KV("components", PyList(<<PyDict(<<KV("type", PyStr(<<"DataGrid">>)),
                                                KV("title", PyStr(text))>>)>>))>>)
    [] record_kind = "security" ->
         Named(PyStr(<<"A">>),
           <<KV("description", PyStr(text)),
             KV("permissions", PyDict(<<
                KV("entity_access", PyDict(<<KV("E", PyDict(<<
                   KV("access", PyStr(<<"R">>)), KV("xpath", PyStr(text))>>))>>))>>))>>)
    [] OTHER ->
         Named(PyStr(<<"A">>),
           <<KV("description", PyStr(text)),
             KV("steps", PyList(<<PyDict(<<KV("name", PyStr(text)),
                                           KV("type", PyStr(<<"UserTask">>))>>)>>))>>)

\* records with optional fields left out
SparseRecords(record_kind) ==
  CASE record_kind = "domain-model" ->
         {Named(PyStr(<<"A">>), <<KV("attributes", PyList(<<>>))>>),
          Named(PyStr(<<"A">>),
            <<KV("attributes", PyList(<<PyDict(<<KV("name", PyStr(<<"Code">>))>>)>>))>>)}
    [] record_kind = "domain-enumerations" ->
         {Named(PyStr(<<"A">>), <<KV("values", PyList(<<>>))>>)}
    [] record_kind = "enumerations" ->
         {PyDict(<<>>), Named(PyStr(<<"A">>), <<KV("values", PyList(<<PyDict(<<>>)>>))>>)}
    [] record_kind = "microflows" ->
         {PyDict(<<>>),
          Named(PyStr(<<"A">>),
            <<KV("parameters", PyList(<<PyDict(<<KV("name", PyStr(<<"p">>))>>)>>))>>)}
    [] record_kind = "pages" ->
         {PyDict(<<>>), Named(PyStr(<<"A">>), <<KV("components", PyList(<<PyDict(<<>>)>>))>>)}
    [] record_kind = "security" ->
         {PyDict(<<>>), Named(PyStr(<<"A">>), <<KV("permissions", PyDict(<<>>))>>)}
    [] OTHER ->
         {PyDict(<<>>), Named(PyStr(<<"A">>), <<KV("steps", PyList(<<PyDict(<<>>)>>))>>)}

\* entity records with one attribute of each logical type, and of a type the
\* mapping does not hold, with and without a length
TypedRecords ==
  {Named(PyStr(<<"A">>),
     <<KV("attributes", PyList(<<PyDict(<<KV("name", PyStr(<<"Code">>)),
                                          KV("type", PyStr(<<type>>))>> \o length)>>))>>) :
     type \in {"String", "Integer", "Boolean", "DateTime", "Decimal", "Enum", "Text"},
     length \in {<<>>, <<KV("length", PyInt(200))>>}}

BuildRecords(record_kind) ==
  {TextInName(record_kind, s) : s \in Texts(MaxTextLen)}
  \cup {TextInDescription(record_kind, s) : s \in Texts(MaxTextLen)}
  \cup SparseRecords(record_kind)
  \cup (IF record_kind = "domain-model" THEN TypedRecords ELSE {})

IdleRun ==
  /\ requested = Missing
  /\ alternatives = [i \in 1..3 |-> Missing]
  /\ fs0 = <<>>
  /\ rs = RunState(<<>>)
  /\ dirs = {}
  /\ pc = "idle"
  /\ config = PyNone
  /\ opened = <<>>
  /\ idx = 0
  /\ exit_code = -1

InitBuild ==
  /\ kind \in Builders
  /\ b_record \in BuildRecords(kind)
  /\ b_pc = "first"
  /\ b_first = NoBuild
  /\ b_second = NoBuild
  /\ clock = 0
  /\ IdleRun
  /\ IdleTools

BuildFirst ==
  /\ b_pc = "first"
  /\ b_first' = serialize_build(kind, b_record, clock)
  /\ b_pc' = "second"
  /\ UNCHANGED <<b_record, b_second, clock>>
  /\ UNCHANGED runVars
  /\ UNCHANGED toolVars

BuildSecond ==
  /\ b_pc = "second"
  /\ b_second' = serialize_build(kind, b_record, clock)
  /\ b_pc' = "done"
  /\ UNCHANGED <<b_record, b_first, clock>>
  /\ UNCHANGED runVars
  /\ UNCHANGED toolVars

\* a second passes between or before the builds
BuildTick ==
  /\ b_pc \in {"first", "second"}
  /\ clock < MaxClock
  /\ clock' = clock + 1
  /\ UNCHANGED buildVars
  /\ UNCHANGED runVars
  /\ UNCHANGED toolVars

NextBuild ==
  \/ BuildFirst
  \/ BuildSecond
  \/ BuildTick

SpecBuild == InitBuild /\ [][NextBuild]_vars

(***************************************************************************)
(* Properties of a generator run.                                          *)
(***************************************************************************)
Done == pc = "done"
LoadDone == pc # "start"

\* the configuration at the requested path holds a list of records
HasRecordList ==
  /\ requested.st = "parsed"
  /\ Has(requested.val, ConfigKey(kind))
  /\ IsList(Item(requested.val, ConfigKey(kind)))
InputRecords == Items(Item(requested.val, ConfigKey(kind)))

\* a record from which building and serializing yield no document
Malformed(record) == serialize_build(kind, record, clock).st # "ok"

DistinctNames(records) ==
  \A i, j \in 1..Len(records) :
     (i # j /\ IsDict(records[i]) /\ IsDict(records[j]))
       => Get(records[i], "name", PyStr(<<"Unknown">>))
            # Get(records[j], "name", PyStr(<<"Unknown">>))

\* the <name>.xml files the run opened for writing
XmlWritten == {p \in rs.touched : IsXmlPath(p)}

\* C1: a run over N records with pairwise distinct names writes exactly N
\* <name>.xml files; with exactly one malformed record among them (a record
\* that is no mapping included) it writes N-1 files, records one failure
\* and completes normally.
C1_OneFilePerRecord ==
  (/\ Done
   /\ kind \in {"enumerations", "microflows"}
   /\ HasRecordList
   /\ DistinctNames(InputRecords))
  => LET n == Len(InputRecords)
         bad == Cardinality({i \in 1..n : Malformed(InputRecords[i])})
     IN /\ bad = 0 => Cardinality(XmlWritten) = n
        /\ bad = 1 => /\ Cardinality(XmlWritten) = n - 1
                      /\ rs.generated_count = n - 1
                      /\ rs.errors = 1
                      /\ ~rs.aborted

\* C2: the exit status of a generator is 0 only on full success: a run with
\* a failed record exits 1, a run whose configuration load failed exits 1.
C2_ExitStatus ==
  (Done /\ kind \in {"pages", "security"})
  => (exit_code = 0 <=> (config # PyNone /\ rs.errors = 0 /\ ~rs.aborted))

\* the entity records a configuration declares
DeclaredEntities(c) ==
  IF Has(c, "entities") /\ IsList(Item(c, "entities")) THEN Item(c, "entities").v ELSE <<>>

\* the descendants of a node, the node included
RECURSIVE NodesOf(_)
NodesOf(n) == {n} \cup UNION {NodesOf(n.kids[i]) : i \in 1..Len(n.kids)}

AttrValue(n, k) == n.attrs[CHOOSE i \in 1..Len(n.attrs) : n.attrs[i].k = k].x

\* C3: the entity generator writes, for every entity record of the loaded
\* configuration, <output>/domain-model/<E>.xml with root <entity name="E">
\* and one <attribute> per declared attribute, and writes no file for an
\* entity the configuration does not hold.
C3_EntitiesFromConfig ==
  (Done /\ kind = "domain-model" /\ exit_code = 0)
  => /\ {p \in rs.touched : p[1] = DomainDir}
          = {XmlPath(DomainDir, Item(DeclaredEntities(config)[i], "name")) :
               i \in 1..Len(DeclaredEntities(config))}
     /\ \A i \in 1..Len(DeclaredEntities(config)) :
          LET e == DeclaredEntities(config)[i]
              doc == rs.fs[XmlPath(DomainDir, Item(e, "name"))]
          IN /\ doc.body[1].tag = "entity"
             /\ AttrValue(doc.body[1], "name") = StrOf(Item(e, "name"))
             /\ Cardinality({m \in NodesOf(doc.body[1]) : m.tag = "attribute"})
                  = Len(Item(e, "attributes").v)

\* C4: with the requested path missing and an alternative that parses,
\* load_config returns the content of the first alternative that parses,
\* skipping an earlier one that exists but does not parse.
C4_FirstParsingAlternative ==
  (/\ LoadDone
   /\ kind \in {"security", "workflows"}
   /\ requested = Missing
   /\ \E i \in 1..3 : alternatives[i].st = "parsed")
  => \E i \in 1..3 :
       /\ alternatives[i].st = "parsed"
       /\ \A j \in 1..(i - 1) : alternatives[j].st # "parsed"
       /\ config = alternatives[i].val
       /\ opened = <<alternative_paths(kind)[i]>>

NothingExists == requested = Missing /\ \A i \in 1..3 : alternatives[i] = Missing

\* C5, as stated: for every generator, with the requested path missing and
\* no alternative path present, the loader returns a mapping and does not
\* fail.
C5_EveryLoaderHasDefault ==
  (LoadDone /\ NothingExists) => (IsDict(config) /\ ~(Done /\ exit_code = 1 /\ idx = 0))

\* C5, amended: for the five generators whose loader has a fallback chain,
\* with the requested path missing and no alternative path present, the
\* loader opens nothing, returns the built-in default of the kind, the same
\* mapping in every run, and the run goes on to its records.
C5_DefaultForFallbackLoaders ==
  (LoadDone /\ kind \in Fallback /\ NothingExists)
  => /\ config = get_default_config(kind)
     /\ IsDict(config)
     /\ opened = <<>>
     /\ Done => exit_code = 0

C5_Witness ==
  /\ Done /\ kind = "enumerations" /\ NothingExists
  /\ config = get_default_enumerations_config
  /\ rs.generated_count = Len(Records)

\* C6: when the requested path exists and does not parse, the load fails
\* without opening an alternative path or using the default, the generator
\* exits 1, and no file is created or modified.
C6_UnparsableRequestedIsFatal ==
  (LoadDone /\ requested = Unparsable)
  => /\ Done /\ exit_code = 1
     /\ config = PyNone
     /\ opened = <<"requested">>
     /\ rs.touched = {}
     /\ rs.fs = fs0

C6_Witness ==
  /\ Done /\ requested = Unparsable /\ kind = "microflows"
  /\ \A i \in 1..3 : alternatives[i].st = "parsed"
  /\ fs0 # <<>>
  /\ exit_code = 1

\* a path the run may rewrite: a generated record's file, the summary, the diagram
Rewritable(p) ==
  \/ /\ kind \in Fallback /\ LoadDone /\ IsDict(config) /\ Has(config, ConfigKey(kind))
     /\ \E i \in 1..Len(Records) :
          /\ ~Malformed(Records[i])
          /\ p = XmlPath(OutputDir(kind), Get(Records[i], "name", PyStr(<<"Unknown">>)))
  \/ kind \in Fallback /\ HasSummary(kind) /\ p = SummaryPath(kind)
  \/ kind = "workflows" /\ p = DiagramPath

\* C10: a run rewrites only the files of the records it generates and its
\* summary; every other file present before the run is there unchanged
\* after it.
C10_OtherFilesUnchanged ==
  (Done /\ kind = "pages")
  => \A p \in DOMAIN fs0 :
       ~Rewritable(p) => (p \in DOMAIN rs.fs /\ rs.fs[p] = fs0[p])

(***************************************************************************)
(* Properties of the builders and the serializer.                          *)
(***************************************************************************)
BuiltTwice == b_pc = "done"

\* C7: building and serializing the same record twice, at any two times,
\* yields the same document text, for every kind.
C7_SameTextTwice ==
  BuiltTwice => (b_first.st = b_second.st /\ b_first.doc = b_second.doc)

\* records all of whose fields are present and hold text
TextRecords(record_kind) ==
  {TextInName(record_kind, s) : s \in Texts(MaxTextLen)}
  \cup {TextInDescription(record_kind, s) : s \in Texts(MaxTextLen)}

\* C8: whatever text the fields of a valid record hold, the document
\* produced is well-formed XML.
C8_WellFormedForAnyText ==
  (b_pc # "first" /\ b_record \in TextRecords(kind))
  => (b_first.st = "ok" /\ WellFormedDocument(b_first.doc))

\* C9: a record that leaves optional fields out is built without an
\* exception, and an attribute or parameter without a type is emitted with
\* type "String".
C9_TotalOverMissingFields ==
  (b_pc # "first" /\ b_record \in SparseRecords(kind))
  => /\ b_first.st = "ok"
     /\ \A m \in NodesOf(b_first.doc.body[1]) :
          m.tag \in {"attribute", "parameter"} => AttrValue(m, "type") = <<"String">>

(***************************************************************************)
(* generate-mpk-package.py.  The archive is a set of entries, each the     *)
(* name it is stored under and the bytes it holds.  The files live in the  *)
(* same file system as the generators' output; `dirs` holds the            *)
(* directories that exist.                                                 *)
(***************************************************************************)
PackagedKinds ==
  <<"enumerations", "domain-model", "security", "microflows", "pages", "workflows">>
KindSet == {PackagedKinds[i] : i \in 1..Len(PackagedKinds)}

\* Path(root) / sub
SubDir(root, sub) == root \o "/" \o sub

\* directory.glob('*.xml')
glob_xml(files, dir) == {p \in DOMAIN files : p[1] = dir /\ IsXmlPath(p)}

Entry(folder, file, data) == [name |-> <<folder, file>>, data |-> data]

create_module_manifest(now, guid) ==
  Entry("", <<"manifest.json">>,
        TextFile(<<"LABProductValidationWorkflow", "1.0.0">> \o Timestamp(now) \o <<guid>>))

create_module_xml ==
  Element("module", <<Attr("name", <<"LABProductValidationWorkflow">>),
                      Attr("version", <<"1.0.0">>)>>, PyNone,
          <<Element("documentation", <<>>,
                    PyStr(<<"LAB Product Validation Workflow Module">>), <<>>),
            Element("dependencies", <<>>, PyNone,
                    <<Element("dependency", <<Attr("name", <<"WorkflowCommons">>),
                                              Attr("version", <<"4.0.0">>)>>, PyNone, <<>>),
                      Element("dependency", <<Attr("name", <<"Atlas_Core">>),
                                              Attr("version", <<"3.0.0">>)>>, PyNone, <<>>)>>)>>)

\* the entries written for the directory `base_output`/kind
kind_entries(files, folders, base_output, sub) ==
  IF SubDir(base_output, sub) \notin folders THEN {}
  ELSE {Entry(sub, p[2], files[p]) : p \in glob_xml(files, SubDir(base_output, sub))}

\* the archive create_mpk_package leaves at output_dir/mpk_filename; the XML
\* files and the documents are read below the fixed directory "output"
create_mpk_package(output_dir, files, folders, now, guid) ==
  LET base_output == "output"
      docs_to_include ==
        {SummaryPath("security"), SummaryPath("enumerations"), DiagramPath,
         <<"output", <<"PROJECT_SUMMARY.md">>>>}
      create_installation_guide ==
        TextFile(<<"# LAB Product Validation Workflow ", "-", " Installation Guide">>)
  IN [exists |-> TRUE,
      entries |->
        {create_module_manifest(now, guid),
         Entry("", <<"module.xml">>, Document(create_module_xml)),
         Entry("documentation", <<"INSTALLATION_GUIDE.md">>, create_installation_guide)}
        \cup UNION {kind_entries(files, folders, base_output, PackagedKinds[i]) :
                      i \in 1..Len(PackagedKinds)}
        \cup {Entry("documentation", p[2], files[p]) : p \in docs_to_include \cap DOMAIN files}]

\* main: the files counted below the directory given with --output
RECURSIVE count_xml_files(_, _, _, _)
count_xml_files(files, folders, base_output, i) ==
  IF i > Len(PackagedKinds) THEN 0
  ELSE (IF SubDir(base_output, PackagedKinds[i]) \in folders
        THEN Cardinality(glob_xml(files, SubDir(base_output, PackagedKinds[i])))
        ELSE 0)
       + count_xml_files(files, folders, base_output, i + 1)

\* a check of the source directory that accepts a root without XML files
source_check_without_count(files, folders, base_output) ==
  IF base_output \notin folders THEN "not found" ELSE "ok"

\* main: the two checks made before the archive is opened
source_check(files, folders, base_output) ==
  IF base_output \notin folders THEN "not found"
  ELSE IF count_xml_files(files, folders, base_output, 1) = 0 THEN "no files"
  ELSE "ok"

(***************************************************************************)
(* Inputs of a packager run: the tree below the root given with --output   *)
(* and the tree below ./output, each directory of a kind absent, empty or  *)
(* holding an XML file and a summary.                                      *)
(***************************************************************************)
Roots == {"output", "dist"}

\* the shapes of a tree: no root at all, or each kind directory absent, empty
\* or holding an XML file and a summary
NoRoot == [k \in KindSet |-> "no root"]
Shapes == [KindSet -> {"absent", "empty", "xml"}] \cup {NoRoot}

\* the directories and files of a tree of shape `shape` below `root`; a file
\* holds the name of its directory, so that equally named files of two trees
\* differ
Tree(root, shape) ==
  LET present == {k \in KindSet : shape[k] \notin {"no root", "absent"}}
      paths == UNION {{XmlPath(SubDir(root, k), PyStr(<<"A">>)),
                       <<SubDir(root, k), <<"SUMMARY.md">>>>} :
                        k \in {x \in KindSet : shape[x] = "xml"}}
  IN [dirs |-> IF shape = NoRoot THEN {} ELSE {root} \cup {SubDir(root, k) : k \in present},
      files |-> [p \in paths |->
                   IF IsXmlPath(p)
                   THEN Document(TextNode("generated", <<>>, <<p[1]>>, <<>>))
                   ELSE TextFile(<<p[1]>>)]]

StaleArchive ==
  [exists |-> TRUE, entries |-> {Entry("", <<"manifest.json">>, TextFile(<<"stale">>))}]

InitPackage ==
  /\ kind = "packager"
  /\ \E root \in Roots, here \in Shapes :
     \E there \in (IF root = "output" THEN {NoRoot}
                   ELSE {NoRoot, [k \in KindSet |-> "xml"],
                         [k \in KindSet |-> IF k = "pages" THEN "xml" ELSE "absent"]}) :
       LET tree == Tree(root, here)
           other == Tree(IF root = "output" THEN "dist" ELSE "output", there)
       IN /\ args = [output |-> root, comprehensive |-> FALSE, verbose |-> FALSE]
          /\ dirs = tree.dirs \cup other.dirs
          /\ fs0 = [p \in DOMAIN tree.files \cup DOMAIN other.files |->
                      IF p \in DOMAIN tree.files THEN tree.files[p] ELSE other.files[p]]
          /\ archive \in (IF here = NoRoot THEN {NoArchive} ELSE {NoArchive, StaleArchive})
  /\ rs = RunState(fs0)
  /\ requested = Missing
  /\ alternatives = [i \in 1..3 |-> Missing]
  /\ pc = "start"
  /\ config = PyNone
  /\ opened = <<>>
  /\ idx = 0
  /\ exit_code = -1
  /\ clock \in 0..MaxClock
  /\ tally = NoTally
  /\ position = <<>>
  /\ taken = <<>>
  /\ ran = <<>>
  /\ IdleBuild

\* main, up to the try block
CheckSource ==
  /\ pc = "start" /\ kind = "packager"
  /\ IF source_check(rs.fs, dirs, args.output) = "ok"
     THEN pc' = "package" /\ UNCHANGED exit_code
     ELSE Exit(1)
  /\ UNCHANGED <<kind, requested, alternatives, fs0, rs, dirs, config, opened, idx, clock>>
  /\ UNCHANGED buildVars
  /\ UNCHANGED toolVars

\* main, the try block
CreatePackage ==
  /\ pc = "package" /\ kind = "packager"
  /\ \E guid \in {"guid-1", "guid-2"} :   \* uuid.uuid4()
       archive' = create_mpk_package(args.output, rs.fs, dirs, clock, guid)
  /\ Exit(0)
  /\ UNCHANGED <<kind, requested, alternatives, fs0, rs, dirs, config, opened, idx, clock>>
  /\ UNCHANGED buildVars
  /\ UNCHANGED <<args, tally, position, taken, ran>>

NextPackage == CheckSource \/ CreatePackage

SpecPackage == InitPackage /\ [][NextPackage]_vars

(***************************************************************************)
(* validate-lab-project.py.  An issue is the sequence of the strings it is *)
(* formatted from; a check returns whether it passed and its issues.       *)
(***************************************************************************)
\* f.read(): the strings of the nodes of a file, as a set
RECURSIVE content(_)
content(nodes) ==
  UNION {{nodes[i].tag}
         \cup {nodes[i].attrs[j].k : j \in 1..Len(nodes[i].attrs)}
         \cup UNION {{nodes[i].attrs[j].x[n] : n \in 1..Len(nodes[i].attrs[j].x)} :
                       j \in 1..Len(nodes[i].attrs)}
         \cup {nodes[i].text[n] : n \in 1..Len(nodes[i].text)}
         \cup content(nodes[i].kids) : i \in 1..Len(nodes)}

\* `needle in content`: the strings the validator looks for that a string of
\* a file holds
Occurrences(token) ==
  CASE token = "System.WorkflowEndedUserTask" ->
         {"System.WorkflowEndedUserTask", "WorkflowEndedUserTask"}
    [] token = "WorkflowCommons.UserTaskView" ->
         {"WorkflowCommons.UserTaskView", "UserTaskView"}
    [] token = "[%CurrentUser%]" -> {"[%CurrentUser%]"}
    [] token = "[%currentuser%]" -> {"%currentuser%"}
    [] token = "viewEntity" -> {"viewEntity"}
    [] token = "http://www.mendix.com/metamodel/Domain/7.0.0" ->
         {"http://www.mendix.com/metamodel/"}
    [] token \in {"[AssignedTo = $currentUser]", "[CompletedBy = $currentUser]",
                  "[TechnicianID = $currentUser/Name]", "[ProcessedBy = $currentUser/Name]",
                  "[ExtractedBy = $currentUser/Name]", "[PerformedBy = $currentUser/Name]",
                  "[System.WorkflowUserTask_Account = $currentUser]"} -> {"$currentUser"}
    [] OTHER -> {}

\* `needle in content.lower()` and re.search(needle, content, re.IGNORECASE):
\* the strings looked for, in lower case, that the lower case of a string holds
LowerOccurrences(token) ==
  CASE token = "System.WorkflowEndedUserTask" -> {"workflowendedusertask"}
    [] token = "WorkflowCommons.UserTaskView" -> {"usertaskview"}
    [] token \in {"[%CurrentUser%]", "[%currentuser%]"} -> {"%currentuser%"}
    [] token = "viewEntity" -> {"viewentity"}
    [] Occurrences(token) = {"$currentUser"} -> {"$currentuser"}
    [] OTHER -> {}

Checked(issues) == [valid |-> issues = <<>>, issues |-> issues]

\* ET.parse succeeds
validate_xml_syntax(doc) == WellFormedDocument(doc)

check_entity_references(doc) ==
  LET deprecated_entities ==
        <<"System.WorkflowEndedUserTask", "WorkflowCommons.UserTaskView",
          "WorkflowCommons.WorkflowView", "WorkflowCommons.MyInitiatedWorkflowView">>
      found == SelectSeq(deprecated_entities,
                         LAMBDA d : \E t \in content(doc.body) : d \in Occurrences(t))
  IN Checked([i \in 1..Len(found) |-> <<"Found deprecated entity reference", found[i]>>])

check_xpath_syntax(doc) ==
  LET lowered == UNION {LowerOccurrences(t) : t \in content(doc.body)}
      exact == UNION {Occurrences(t) : t \in content(doc.body)}
      view_entity_patterns == <<"workflowview", "usertaskview", "myinitiatedworkflowview">>
      found == SelectSeq(view_entity_patterns, LAMBDA pattern : pattern \in lowered)
  IN Checked(
       (IF "$currentUser" \in lowered
        THEN <<<<"Found '$currentUser'", "should be '[%CurrentUser%]' in 10.18.1">>>>
        ELSE <<>>)
       \o (IF "%currentuser%" \in lowered /\ "[%CurrentUser%]" \notin exact
           THEN <<<<"Found incorrect CurrentUser syntax", "use '[%CurrentUser%]'">>>>
           ELSE <<>>)
       \o [i \in 1..Len(found) |-> <<"Found View Entity reference in XPath", found[i]>>])

\* the loop over a list of required names: a missing file is one issue, an
\* existing file is parsed and, where the caller does so, searched
RECURSIVE check_required(_, _, _, _, _, _, _)
check_required(files, dir, names, i, missing, with_references, with_xpath) ==
  IF i > Len(names) THEN <<>>
  ELSE LET path == XmlPath(dir, PyStr(<<names[i]>>))
           file == <<names[i], ".xml">>
           prefixed(errors) == [n \in 1..Len(errors) |-> file \o errors[n]]
       IN (IF path \notin DOMAIN files THEN <<<<missing, names[i]>>>>
           ELSE (IF validate_xml_syntax(files[path]) THEN <<>>
                 ELSE <<<<"Invalid XML in">> \o file>>)
                \o (IF with_references
                    THEN prefixed(check_entity_references(files[path]).issues) ELSE <<>>)
                \o (IF with_xpath
                    THEN prefixed(check_xpath_syntax(files[path]).issues) ELSE <<>>))
          \o check_required(files, dir, names, i + 1, missing, with_references, with_xpath)

validate_security_roles(files, folders, security_dir) ==
  IF security_dir \notin folders
  THEN [valid |-> FALSE, issues |-> <<<<"Security directory not found">>>>]
  ELSE Checked(check_required(files, security_dir, <<"LABAdmin", "LABTechnician", "LABViewer">>,
                              1, "Missing required security role", TRUE, TRUE))

\* a validate_domain_model that reports a missing directory without an issue
validate_domain_model_silent(files, folders, domain_dir, enum_dir) ==
  [valid |-> domain_dir \in folders /\ enum_dir \in folders, issues |-> <<>>]

validate_domain_model(files, folders, domain_dir, enum_dir) ==
  IF domain_dir \notin folders
  THEN [valid |-> FALSE, issues |-> <<<<"Domain model directory not found">>>>]
  ELSE IF enum_dir \notin folders
  THEN [valid |-> FALSE, issues |-> <<<<"Enumerations directory not found">>>>]
  ELSE Checked(
         check_required(files, domain_dir,
                        <<"ProductValidation", "ImageAcquisition", "ImageQualityValidation",
                          "DetailedImageAcquisition", "ImageAnalysis", "KPIExtraction",
                          "ValidationResult", "ValidationReport", "WorkflowAuditTrail">>,
                        1, "Missing required entity", FALSE, FALSE)
         \o check_required(files, enum_dir,
                           <<"ValidationStatus", "Priority", "ImageQuality", "WorkflowStage",
                             "ApprovalLevel">>,
                           1, "Missing required enumeration", FALSE, FALSE))

\* a validate_microflows that takes a missing core microflow for no issue
validate_microflows_lenient(files, folders, microflows_dir) ==
  Checked(<<>>)

validate_microflows(files, folders, microflows_dir) ==
  IF microflows_dir \notin folders
  THEN [valid |-> FALSE, issues |-> <<<<"Microflows directory not found">>>>]
  ELSE Checked(check_required(files, microflows_dir,
                              <<"ACT_CreateTask", "ACT_CompleteTask", "ACT_ProcessImageQuality",
                                "SUB_CheckUserPermissions", "DS_GetMyTasks">>,
                              1, "Missing core microflow", TRUE, FALSE))

\* base_dir is the working directory
validate_project_structure(folders, config_file) ==
  LET required_dirs == <<"output/domain-model", "output/enumerations", "output/microflows",
                         "output/security", "config">>
      absent == SelectSeq(required_dirs, LAMBDA dir_path : dir_path \notin folders)
  IN Checked([i \in 1..Len(absent) |-> <<"Missing required directory", absent[i]>>]
             \o (IF config_file THEN <<>>
                 ELSE <<<<"Missing configuration file", "config/lab-workflow-config.yaml">>>>))

\* the files are read below base_dir/output, in the order glob yields them
check_mendix_compatibility(files, folders) ==
  LET xml_files == UNION {IF SubDir("output", dir_name) \in folders
                          THEN glob_xml(files, SubDir("output", dir_name)) ELSE {} :
                            dir_name \in {"domain-model", "microflows", "security", "pages",
                                          "workflows"}}
      mendix_11_features == <<"workflowendedusertask", "view entities", "view entity",
                              "viewentity">>
      of_file(p) ==
        LET exact == UNION {Occurrences(t) : t \in content(files[p].body)}
            lowered == UNION {LowerOccurrences(t) : t \in content(files[p].body)}
            found == SelectSeq(mendix_11_features, LAMBDA feature : feature \in lowered)
        IN [i \in 1..Len(found) |-> p[2] \o <<"Contains Mendix 11+ feature", found[i]>>]
           \o (IF "http://www.mendix.com/metamodel/" \in exact
                  /\ ("/8.0.0" \in exact \/ "/9.0.0" \in exact)
               THEN <<p[2] \o <<"Uses newer XML schema version">>>> ELSE <<>>)
      RECURSIVE of_files(_)
      of_files(ps) ==
        IF ps = {} THEN <<>>
        ELSE LET p == CHOOSE q \in ps : TRUE IN of_file(p) \o of_files(ps \ {p})
  IN Checked(of_files(xml_files))

\* main: what the result of a category adds to all_passed and total_issues
tallied(t, category, result) ==
  [all_passed |-> t.all_passed /\ result.valid,
   total_issues |-> t.total_issues + (IF result.valid THEN 0 ELSE Len(result.issues)),
   results |-> Append(t.results, [category |-> category, valid |-> result.valid,
                                  issues |-> result.issues])]

\* a report written over a generated file
report_over_artifact(output_dir) == XmlPath(SubDir(output_dir, "security"), PyStr(<<"LABAdmin">>))

report_file(output_dir) == <<output_dir, <<"VALIDATION_REPORT.txt">>>>

(***************************************************************************)
(* Inputs of a validator run.                                              *)
(***************************************************************************)
\* the files left below ./output by a run of every generator over its built-in
\* records; the domain-model and the enumeration generator write the same
\* directory, so the order of the two matters
GeneratedTrees ==
  LET gen(k, files) ==
        run_from(k, RunState(files), Items(Item(get_default_config(k), ConfigKey(k))), 1, 0).fs
      dom(files) == domain_run_from(RunState(files), 1).fs
      rest == gen("workflows", gen("security", gen("pages", gen("microflows", <<>>))))
  IN <<gen("enumerations", dom(rest)), dom(gen("enumerations", rest))>>

\* the trees a run starts from: the generated trees, and a tree that holds a
\* small document under every required name and under some others, as it
\* is below ./output and below ./dist and changed in one place; and both
\* roots together, the tree below ./dist complete and the one below ./output
\* changed in one place
InputTrees ==
  LET xml(k, name) == XmlPath(SubDir("output", k), PyStr(<<name>>))
      small(t) == Document(TextNode("generated", <<>>, <<t>>, <<>>))
      required ==
        {xml("domain-model", n) : n \in {"ProductValidation", "ImageAcquisition",
           "ImageQualityValidation", "DetailedImageAcquisition", "ImageAnalysis",
           "KPIExtraction", "ValidationResult", "ValidationReport", "WorkflowAuditTrail"}}
        \cup {xml("enumerations", n) : n \in {"ValidationStatus", "Priority", "ImageQuality",
                                              "WorkflowStage", "ApprovalLevel"}}
        \cup {xml("microflows", n) : n \in {"ACT_CreateTask", "ACT_CompleteTask",
                "ACT_ProcessImageQuality", "SUB_CheckUserPermissions", "DS_GetMyTasks"}}
        \cup {xml("security", n) : n \in {"LABAdmin", "LABTechnician", "LABViewer"}}
      others == {xml("microflows", "ACT_AssignTask"), xml("pages", "TaskInbox"),
                 xml("workflows", "LAB_ProductValidation")}
      complete == [p \in required \cup others |-> small(p[1])]
      places == {xml("domain-model", "ProductValidation"), xml("enumerations", "Priority"),
                 xml("microflows", "ACT_CreateTask"), xml("microflows", "ACT_AssignTask"),
                 xml("security", "LABAdmin"), xml("pages", "TaskInbox"),
                 xml("workflows", "LAB_ProductValidation"), xml("domain-model", "Extra")}
      docs == {HeaderOnly}
              \cup {small(t) : t \in {"System.WorkflowEndedUserTask",
                                       "WorkflowCommons.UserTaskView", "[%currentuser%]",
                                       "viewEntity"}}
      changes ==
        {[op |-> "remove", path |-> p, doc |-> HeaderOnly] : p \in required}
        \cup {[op |-> "remove directory", path |-> xml(k, "A"), doc |-> HeaderOnly] :
                k \in {"domain-model", "enumerations", "microflows", "security"}}
        \cup {[op |-> "put", path |-> p, doc |-> d] : p \in places, d \in docs}
      Changed(files, change) ==
        CASE change.op = "remove" -> [p \in DOMAIN files \ {change.path} |-> files[p]]
          [] change.op = "remove directory" ->
               [p \in {q \in DOMAIN files : q[1] # change.path[1]} |-> files[p]]
          [] change.op = "put" -> WriteFile(files, change.path, change.doc)
      below(root, dir) == SubDir(root, CHOOSE k \in KindSet : dir \in {SubDir(r, k) : r \in Roots})
      moved(files) == [q \in {<<below("dist", p[1]), p[2]>> : p \in DOMAIN files} |->
                         files[<<below("output", q[1]), q[2]>>]]
  IN {[root |-> "output", generated |-> TRUE, files |-> GeneratedTrees[i]] :
        i \in 1..Len(GeneratedTrees)}
     \cup {[root |-> "output", generated |-> FALSE, files |-> Changed(complete, c)] : c \in changes}
     \cup {[root |-> "output", generated |-> FALSE, files |-> complete],
           [root |-> "dist", generated |-> FALSE, files |-> moved(complete)]}
     \cup {[root |-> "dist", generated |-> FALSE,
            files |-> LET there == Changed(complete, c)
                      IN [p \in DOMAIN moved(complete) \cup DOMAIN there |->
                            IF p \in DOMAIN there THEN there[p] ELSE moved(complete)[p]]] :
             c \in {[op |-> "put", path |-> xml("pages", "TaskInbox"), doc |-> small("viewEntity")],
                    [op |-> "remove directory", path |-> xml("security", "A"),
                     doc |-> HeaderOnly]}}

InitValidate ==
  /\ kind = "validator"
  /\ \E tree \in InputTrees, config_dir \in SUBSET {"config"} :
       /\ fs0 = tree.files
       /\ dirs = {tree.root} \cup {q[1] : q \in DOMAIN tree.files} \cup config_dir
                 \cup {r \in Roots : \E q \in DOMAIN tree.files, k \in KindSet :
                                        q[1] = SubDir(r, k)}
       /\ args \in IF tree.generated
                   THEN [output : {tree.root}, comprehensive : BOOLEAN, verbose : {FALSE}]
                   ELSE [output : Roots, comprehensive : BOOLEAN, verbose : BOOLEAN]
  /\ rs = RunState(fs0)
  /\ requested = Missing
  /\ alternatives \in {[i \in 1..3 |-> Missing]}
                      \cup (IF "config" \in dirs
                            THEN {[i \in 1..3 |-> IF i = 1 THEN Parsed(PyDict(<<>>)) ELSE Missing]}
                            ELSE {})
  /\ pc = "start"
  /\ config = PyNone
  /\ opened = <<>>
  /\ idx = 0
  /\ exit_code = -1
  /\ clock = 0
  /\ tally = NoTally
  /\ archive = NoArchive
  /\ position = <<>>
  /\ taken = <<>>
  /\ ran = <<>>
  /\ IdleBuild

Step(to, category, result) ==
  /\ pc' = to
  /\ tally' = tallied(tally, category, result)
  /\ UNCHANGED <<kind, requested, alternatives, fs0, rs, dirs, config, opened, idx,
                 exit_code, clock, args, archive, position, taken, ran>>
  /\ UNCHANGED buildVars

\* main: the structure check and the test that the output directory exists
ValidateStructure ==
  /\ pc = "start" /\ kind = "validator"
  /\ tally' = tallied(tally, "structure",
                      validate_project_structure(dirs, alternatives[1] # Missing))
  /\ IF args.output \notin dirs THEN Exit(1)
     ELSE pc' = "domain model" /\ UNCHANGED exit_code
  /\ UNCHANGED <<kind, requested, alternatives, fs0, rs, dirs, config, opened, idx, clock,
                 args, archive, position, taken, ran>>
  /\ UNCHANGED buildVars

ValidateDomainModel ==
  /\ pc = "domain model" /\ kind = "validator"
  /\ Step("microflows", "domain model",
          validate_domain_model(rs.fs, dirs, SubDir(args.output, "domain-model"),
                                SubDir(args.output, "enumerations")))

ValidateMicroflows ==
  /\ pc = "microflows" /\ kind = "validator"
  /\ Step("security", "microflows",
          validate_microflows(rs.fs, dirs, SubDir(args.output, "microflows")))

ValidateSecurity ==
  /\ pc = "security" /\ kind = "validator"
  /\ Step(IF args.comprehensive THEN "compatibility" ELSE "summary", "security",
          validate_security_roles(rs.fs, dirs, SubDir(args.output, "security")))

CheckCompatibility ==
  /\ pc = "compatibility" /\ kind = "validator"
  /\ Step("summary", "compatibility", check_mendix_compatibility(rs.fs, dirs))

\* main: the final summary, the report and the return value
Summarize ==
  /\ pc = "summary" /\ kind = "validator"
  /\ IF args.verbose
     THEN LET line(tokens) == TextNode("#text", <<>>, tokens, <<>>)
              \* `if structure_issues:` and its like: the heading, a line for
              \* each issue and an empty line
              section(i, heading) ==
                LET issues == tally.results[i].issues
                IN IF issues = <<>> THEN <<>>
                   ELSE <<line(<<heading>>)>>
                        \o [n \in 1..Len(issues) |-> line(<<"  * ">> \o issues[n])]
                        \o <<line(<<>>)>>
              lines ==
                <<line(<<"LAB Workflow Project Validation Report">>), line(<<"=====">>),
                  line(<<>>), line(<<"Validation Date: ", ".">>),
                  line(<<"Target Platform: Mendix 10.18.1">>),
                  line(<<"Workflow Commons: 3.12.1">>), line(<<>>)>>
                \o (IF tally.all_passed
                    THEN <<line(<<"ALL VALIDATIONS PASSED">>), line(<<>>)>>
                    ELSE <<line(<<"VALIDATION FAILED ", ToString(tally.total_issues),
                                  " issues">>), line(<<>>)>>
                         \o section(1, "Structure Issues:")
                         \o section(2, "Domain Model Issues:")
                         \o section(3, "Microflow Issues:")
                         \o section(4, "Security Issues:"))
          IN rs' = [rs EXCEPT
                      !.fs = WriteFile(@, report_file(args.output),
                                       [decl |-> FALSE, body |-> lines]),
                      !.touched = @ \cup {report_file(args.output)}]
     ELSE UNCHANGED rs
  /\ Exit(IF tally.all_passed THEN 0 ELSE 1)
  /\ UNCHANGED <<kind, requested, alternatives, fs0, dirs, config, opened, idx, clock>>
  /\ UNCHANGED buildVars
  /\ UNCHANGED toolVars

NextValidate ==
  \/ ValidateStructure
  \/ ValidateDomainModel
  \/ ValidateMicroflows
  \/ ValidateSecurity
  \/ CheckCompatibility
  \/ Summarize

SpecValidate == InitValidate /\ [][NextValidate]_vars

(***************************************************************************)
(* Properties of the packager.                                             *)
(***************************************************************************)
Packaging == kind = "packager"
\* the entries of the archive stored below the name of a kind
XmlEntries == {e \in archive.entries : e.name[1] \in KindSet}
\* the XML files main counts below `root`, as the entries they should become
CountedFiles(root) ==
  UNION {{Entry(k, p[2], rs.fs[p]) : p \in glob_xml(rs.fs, SubDir(root, k))} : k \in KindSet}
NothingToPackage == args.output \notin dirs \/ CountedFiles(args.output) = {}

\* C11: for any root R given with --output, the archive produced contains
\* manifest.json, module.xml and every *.xml file of R/<kind>/ stored as
\* <kind>/<file>; its XML entries are exactly the files counted in R.
C11_ArchiveHoldsRootFiles ==
  (Packaging /\ Done /\ exit_code = 0)
  => /\ archive.exists
     /\ \E e \in archive.entries : e.name = <<"", <<"manifest.json">>>>
     /\ \E e \in archive.entries : e.name = <<"", <<"module.xml">>>>
     /\ XmlEntries = CountedFiles(args.output)

\* C12: when the root given with --output is absent, or the six kind
\* directories below it hold no *.xml file, the packager ends with status 1
\* and never creates or changes the archive.
C12_NoSourceNoArchive ==
  /\ [](Packaging /\ Done /\ NothingToPackage => exit_code = 1)
  /\ [][Packaging /\ NothingToPackage => archive' = archive]_vars

C12_Witness ==
  /\ Packaging /\ Done /\ exit_code = 1
  /\ args.output \in dirs /\ CountedFiles(args.output) = {}
  /\ CountedFiles("output") # {}
  /\ archive = StaleArchive

\* C13: whenever the root exists and at least one kind directory below it
\* holds an XML file, the packager ends with status 0 whichever other kind
\* directories are absent, and the archive has no entry for an absent kind.
C13_AbsentKindsSkipped ==
  (Packaging /\ Done /\ ~NothingToPackage)
  => /\ exit_code = 0
     /\ \A k \in KindSet :
          SubDir(args.output, k) \notin dirs => \A e \in archive.entries : e.name[1] # k

(***************************************************************************)
(* Properties of the validator.                                            *)
(***************************************************************************)
Validating == kind = "validator"
\* the run went through every category and ended in the final summary
Summarized == Validating /\ Done /\ args.output \in dirs

\* the required names of each kind directory below the validated root
RequiredFiles ==
  {XmlPath(SubDir(args.output, "domain-model"), PyStr(<<n>>)) :
     n \in {"ProductValidation", "ImageAcquisition", "ImageQualityValidation",
            "DetailedImageAcquisition", "ImageAnalysis", "KPIExtraction", "ValidationResult",
            "ValidationReport", "WorkflowAuditTrail"}}
  \cup {XmlPath(SubDir(args.output, "enumerations"), PyStr(<<n>>)) :
          n \in {"ValidationStatus", "Priority", "ImageQuality", "WorkflowStage",
                 "ApprovalLevel"}}
  \cup {XmlPath(SubDir(args.output, "microflows"), PyStr(<<n>>)) :
          n \in {"ACT_CreateTask", "ACT_CompleteTask", "ACT_ProcessImageQuality",
                 "SUB_CheckUserPermissions", "DS_GetMyTasks"}}
  \cup {XmlPath(SubDir(args.output, "security"), PyStr(<<n>>)) :
          n \in {"LABAdmin", "LABTechnician", "LABViewer"}}

\* the XML files of the six kind directories below the validated root
ArtifactFiles ==
  {p \in DOMAIN fs0 : IsXmlPath(p) /\ p[1] \in {SubDir(args.output, k) : k \in KindSet}}

\* every issue reported, with the position it was reported at
Reported ==
  UNION {{<<i, j>> : j \in 1..Len(tally.results[i].issues)} : i \in 1..Len(tally.results)}
IssueAt(at) == tally.results[at[1]].issues[at[2]]
MissingReported ==
  {at \in Reported : IssueAt(at)[1] \in {"Missing required entity",
       "Missing required enumeration", "Missing core microflow",
       "Missing required security role"}}

\* C14: for an output tree complete except for exactly one required artifact
\* name, the validator reports exactly one missing-required issue, which
\* names that artifact, and ends with status 1.
C14_OneMissingOneIssue ==
  (/\ Summarized
   /\ \A k \in {"domain-model", "enumerations", "microflows", "security"} :
        SubDir(args.output, k) \in dirs
   /\ Cardinality(RequiredFiles \ DOMAIN fs0) = 1)
  => /\ Cardinality(MissingReported) = 1
     /\ \A at \in MissingReported : \A p \in RequiredFiles \ DOMAIN fs0 :
          p[2] = <<IssueAt(at)[2], ".xml">>
     /\ exit_code = 1

C14_Witness ==
  /\ Summarized /\ exit_code = 1
  /\ RequiredFiles \ DOMAIN fs0 =
       {XmlPath(SubDir(args.output, "microflows"), PyStr(<<"DS_GetMyTasks">>))}
  /\ \E at \in MissingReported : IssueAt(at) = <<"Missing core microflow", "DS_GetMyTasks">>
  /\ alternatives[1] # Missing /\ tally.total_issues = 1

\* C15: after every generator has run with its built-in records into a fresh
\* output root, the validator, with or without --comprehensive, reports no
\* missing required artifact and no issue at all, and passes.
C15_FreshTreePasses ==
  (/\ Validating /\ Done
   /\ XmlPath(OutputDir("pages"), PyStr(<<"TaskDashboard">>)) \in DOMAIN fs0
   /\ \E i \in 1..Len(GeneratedTrees) : fs0 = GeneratedTrees[i]
   /\ \A i \in 1..3 : alternatives[i] = Missing)
  => /\ MissingReported = {}
     /\ tally.total_issues = 0
     /\ tally.all_passed
     /\ exit_code = 0

\* C16: every malformed .xml file of a kind directory, whatever its name and
\* its directory, gives one parse-failure issue and a failed status.
C16_EveryMalformedFileReported ==
  Summarized
  => \A p \in ArtifactFiles :
       ~WellFormedDocument(fs0[p])
       => /\ exit_code = 1
          /\ Cardinality({at \in Reported : IssueAt(at) = <<"Invalid XML in">> \o p[2]}) = 1

\* C17: a file of any kind directory whose content holds the deprecated
\* identifier System.WorkflowEndedUserTask gives an issue for that file and
\* that identifier, and the run fails.
C17_DeprecatedIdentifierFails ==
  Summarized
  => \A p \in ArtifactFiles :
       (\E t \in content(fs0[p].body) : "System.WorkflowEndedUserTask" \in Occurrences(t))
       => /\ exit_code = 1
          /\ \E at \in Reported :
               /\ Len(IssueAt(at)) > Len(p[2])
               /\ SubSeq(IssueAt(at), 1, Len(p[2])) = p[2]
               /\ \E n \in 1..Len(IssueAt(at)) :
                    IssueAt(at)[n] \in {"System.WorkflowEndedUserTask", "workflowendedusertask"}

\* C18: a validator run, whatever its outcome, creates, changes and deletes
\* no file but the report, which it writes only with --verbose.
C18_ReadOnly ==
  Validating
  => /\ \A p \in DOMAIN fs0 \ {report_file(args.output)} :
          p \in DOMAIN rs.fs /\ rs.fs[p] = fs0[p]
     /\ (DOMAIN rs.fs) \ (DOMAIN fs0) \subseteq
          (IF args.verbose THEN {<<args.output, <<"VALIDATION_REPORT.txt">>>>} ELSE {})

C18_Witness ==
  /\ Summarized /\ args.verbose /\ exit_code = 1
  /\ <<args.output, <<"VALIDATION_REPORT.txt">>>> \in DOMAIN rs.fs
  /\ RequiredFiles \ DOMAIN fs0 # {}

\* C19: at the end of a run that reaches the final summary, the total is the
\* sum of the issue counts of the categories that ran (structure, domain
\* model, microflows, security, and compatibility with --comprehensive), the
\* status is 0 exactly if the total is 0, and every invalid category holds
\* at least one issue.
C19_TotalIsSumOfCategories ==
  Summarized
  => /\ [i \in 1..Len(tally.results) |-> tally.results[i].category]
          = <<"structure", "domain model", "microflows", "security">>
            \o (IF args.comprehensive THEN <<"compatibility">> ELSE <<>>)
     /\ tally.total_issues = Cardinality(Reported)
     /\ exit_code = 0 <=> tally.total_issues = 0
     /\ \A i \in 1..Len(tally.results) :
          ~tally.results[i].valid => Len(tally.results[i].issues) >= 1

C19_Witness ==
  /\ Summarized /\ args.comprehensive /\ exit_code = 1
  /\ tally.total_issues >= 3
  /\ Cardinality({i \in 1..Len(tally.results) : ~tally.results[i].valid}) >= 3

(***************************************************************************)
(* Properties of a generator run whose output cannot be written.           *)
(***************************************************************************)
\* the records the loops of the run go over, in order
LoopRecords == IF kind = "domain-model" THEN entities.v \o enumerations.v ELSE Records
\* the file of the i-th of them
RecordPath(i) ==
  IF kind # "domain-model"
  THEN XmlPath(OutputDir(kind), Get(LoopRecords[i], "name", PyStr(<<"Unknown">>)))
  ELSE XmlPath(IF i <= Len(entities.v) THEN DomainDir ELSE EnumDir, Item(LoopRecords[i], "name"))
\* the run entered its loop, every record of it can be built and serialized,
\* and the file of one of them cannot be opened for writing
OneWriteFails ==
  /\ kind \in Generators /\ Done /\ idx >= 1
  /\ kind # "domain-model" => \A i \in 1..Len(LoopRecords) : ~Malformed(LoopRecords[i])
  /\ \E i \in 1..Len(LoopRecords) : RecordPath(i) \in rs.readonly

\* C20: in every generator, the domain-model generator included, a failure
\* to write the file of one record does not halt the batch: the file of
\* every other record is written and the run ends normally.
C20_WriteFailureDoesNotHalt ==
  OneWriteFails
  => /\ ~rs.aborted
     /\ exit_code = 0
     /\ \A j \in 1..Len(LoopRecords) :
          RecordPath(j) \notin rs.readonly => RecordPath(j) \in rs.touched


(***************************************************************************)
(* Properties of the names a record gives to artifacts of other kinds.     *)
(***************************************************************************)
\* the generators whose records name artifacts of other kinds
Referring == {"pages", "security", "workflows"}
\* the files of a tree together with the artifacts record A names
Resolved(files) ==
  [p \in DOMAIN files \cup ReferencedPaths(kind) |->
     IF p \in DOMAIN files THEN files[p]
     ELSE Document(TextNode("generated", <<>>, <<"a">>, <<>>))]

\* C21: a page, role or workflow record is handled without looking up the
\* artifacts it names: the step of the loop over a record leaves the counters,
\* the set of written files and every file as it would leave them in a tree
\* that holds the named artifacts, and a record that can be built and whose
\* file can be opened is written and counted whether they exist or not.
C21_ReferencesUnvalidated ==
  [][(ProcessRecord /\ kind \in Referring) =>
       LET record == Records[idx]
           there == process_record(kind, [rs EXCEPT !.fs = Resolved(@)], record, clock)
           path == RecordPath(idx)
       IN /\ rs'.generated_count = there.generated_count
          /\ rs'.errors = there.errors
          /\ rs'.aborted = there.aborted
          /\ rs'.touched = there.touched
          /\ DOMAIN there.fs = DOMAIN rs'.fs \cup ReferencedPaths(kind)
          /\ \A p \in DOMAIN rs'.fs : rs'.fs[p] = there.fs[p]
          /\ (IsDict(record) /\ ~Malformed(record) /\ path \notin rs.readonly)
               => /\ rs'.generated_count = rs.generated_count + 1
                  /\ path \in DOMAIN rs'.fs
                  /\ rs'.fs[path] = serialize_build(kind, record, clock).doc]_vars

\* a run wrote and counted record A although no artifact it names exists
C21_Witness ==
  /\ kind \in Referring /\ Done /\ idx >= 1
  /\ Records[1] = RecordPool(kind)[1]
  /\ ReferencedPaths(kind) \cap DOMAIN rs.fs = {}
  /\ XmlPath(OutputDir(kind), PyStr(<<"A">>)) \in rs.touched
  /\ rs.generated_count >= 1

(***************************************************************************)
(* Properties of the entity builder.                                       *)
(***************************************************************************)
\* C22: in the document built for an entity record with one attribute, the
\* attribute element holds an enumeration reference exactly when the type is
\* "Enum", carries the length the record gives when the type is "String" or
\* "Decimal", and has its name, its type and its documentation and nothing
\* else when the type is "DateTime", "Boolean" or "Integer".
C22_TypeRepresentation ==
  (kind = "domain-model" /\ b_pc # "first" /\ b_record \in TypedRecords /\ b_first.st = "ok")
  => LET attr == Item(b_record, "attributes").v[1]
         type == Item(attr, "type").v[1]
         node == CHOOSE n \in NodesOf(b_first.doc.body[1]) : n.tag = "attribute"
         tags == {node.kids[i].tag : i \in 1..Len(node.kids)}
         keys == {node.attrs[i].k : i \in 1..Len(node.attrs)}
     IN /\ ("enumeration" \in tags) <=> (type = "Enum")
        /\ (type \in {"String", "Decimal"} /\ Has(attr, "length"))
             => ("length" \in keys /\ AttrValue(node, "length") = StrOf(Item(attr, "length")))
        /\ type \in {"DateTime", "Boolean", "Integer"}
             => (tags = {"documentation"} /\ keys = {"name", "type"})

(***************************************************************************)
(* Properties of the validator's search for $currentUser.                  *)
(***************************************************************************)
\* C23: a required role file whose content holds $currentUser is invalid for
\* check_xpath_syntax, and the run reports the issue for that file and fails.
C23_CurrentUserReported ==
  Summarized
  => \A n \in {"LABAdmin", "LABTechnician", "LABViewer"} :
       LET p == XmlPath(SubDir(args.output, "security"), PyStr(<<n>>))
       IN (/\ p \in DOMAIN fs0
           /\ \E t \in content(fs0[p].body) : "$currentUser" \in Occurrences(t))
          => /\ ~check_xpath_syntax(fs0[p]).valid
             /\ exit_code = 1
             /\ \E at \in Reported :
                  IssueAt(at) = p[2] \o <<"Found '$currentUser'",
                                          "should be '[%CurrentUser%]' in 10.18.1">>

(***************************************************************************)
(* The default workflow definition, read as a transition system: a run     *)
(* starts at `start`; at a step that declares outcomes it chooses one, and *)
(* it moves along a flow from its step that has no condition or whose      *)
(* condition is the outcome chosen there.                                  *)
(***************************************************************************)
LAB_ProductValidation == Item(get_default_workflow_config, "workflows").v[1]
steps == Item(LAB_ProductValidation, "steps").v

\* the flows with one more: from lab_validation to workflow_approved on
\* requires_rework
flows_with_shortcut ==
  Item(LAB_ProductValidation, "flows").v
  \o <<PyDict(<<KV("from", PyStr(<<"lab_validation">>)),
                KV("to", PyStr(<<"workflow_approved">>)),
                KV("condition", PyStr(<<"requires_rework">>))>>)>>

flows == Item(LAB_ProductValidation, "flows").v

Runs == 1..MaxRuns
step_ids == {Item(steps[i], "id").v[1] : i \in 1..Len(steps)}
step_of(id) == steps[CHOOSE i \in 1..Len(steps) : Item(steps[i], "id").v[1] = id]
outcomes(id) ==
  LET declared == Get(step_of(id), "outcomes", PyList(<<>>)).v
  IN {declared[i].v[1] : i \in 1..Len(declared)}
end_events == {id \in step_ids : Item(step_of(id), "type") = PyStr(<<"end_event">>)}
\* the outcomes run r chose at the step it is at
chosen(r) == {taken[r][i][2] : i \in {n \in 1..Len(taken[r]) : taken[r][n][1] = position[r]}}

InitWorkflow ==
  /\ kind = "workflow"
  /\ position = [r \in Runs |-> "start"]
  /\ taken = [r \in Runs |-> <<>>]
  /\ args = [output |-> "output", comprehensive |-> FALSE, verbose |-> FALSE]
  /\ tally = NoTally
  /\ archive = NoArchive
  /\ ran = <<>>
  /\ clock = 0
  /\ IdleRun
  /\ IdleBuild

\* the step run r is at ends with one of its declared outcomes
Choose(r) ==
  /\ kind = "workflow"
  /\ chosen(r) = {}
  /\ \E outcome \in outcomes(position[r]) :
       taken' = [taken EXCEPT ![r] = Append(@, <<position[r], outcome>>)]
  /\ UNCHANGED <<position, args, tally, archive, ran, clock>>
  /\ UNCHANGED runVars
  /\ UNCHANGED buildVars

\* run r moves along a flow that leaves its step
Move(r) ==
  /\ kind = "workflow"
  /\ outcomes(position[r]) # {} => chosen(r) # {}
  /\ \E i \in 1..Len(flows) :
       /\ Item(flows[i], "from").v[1] = position[r]
       /\ Has(flows[i], "condition") => Item(flows[i], "condition").v[1] \in chosen(r)
       /\ position' = [position EXCEPT ![r] = Item(flows[i], "to").v[1]]
  /\ UNCHANGED <<taken, args, tally, archive, ran, clock>>
  /\ UNCHANGED runVars
  /\ UNCHANGED buildVars

NextWorkflow == \E r \in Runs : Choose(r) \/ Move(r)

SpecWorkflow == InitWorkflow /\ [][NextWorkflow]_vars

\* every run that can go on does go on
SpecWorkflowFair ==
  SpecWorkflow /\ \A r \in Runs : WF_vars(Choose(r)) /\ WF_vars(Move(r))

(***************************************************************************)
(* Properties of the default workflow definition.                          *)
(***************************************************************************)
\* run r took this outcome at this step
Took(r, id, outcome) == \E i \in 1..Len(taken[r]) : taken[r][i] = <<id, outcome>>

\* C24: a run is at the end event workflow_approved, whose result is true,
\* only if it took true at quality_validation and approved at lab_validation,
\* and at workflow_rejected, whose result is false, only if it took false at
\* quality_validation or rejected at lab_validation.
C24_EndEventsFollowDecisions ==
  kind = "workflow"
  => /\ Item(step_of("workflow_approved"), "result") = PyStr(<<"true">>)
     /\ Item(step_of("workflow_rejected"), "result") = PyStr(<<"false">>)
     /\ \A r \in Runs :
          /\ position[r] = "workflow_approved"
               => /\ Took(r, "quality_validation", "true")
                  /\ Took(r, "lab_validation", "approved")
          /\ position[r] = "workflow_rejected"
               => \/ Took(r, "quality_validation", "false")
                  \/ Took(r, "lab_validation", "rejected")

\* one run ended approved, another rejected at lab_validation
C24_Witness ==
  /\ kind = "workflow"
  /\ \E r \in Runs : position[r] = "workflow_approved"
  /\ \E r \in Runs : position[r] = "workflow_rejected" /\ Took(r, "lab_validation", "rejected")

\* C25: every run, whatever outcomes it chooses, eventually is at one of the
\* end events workflow_approved and workflow_rejected.
C25_EveryRunEnds ==
  kind = "workflow" => <>(\A r \in Runs : position[r] \in end_events)

(***************************************************************************)
(* Properties of the files a generator run leaves.                         *)
(***************************************************************************)
\* the <name>.xml files the run created or changed
ChangedXml ==
  {p \in DOMAIN rs.fs : IsXmlPath(p) /\ (p \in DOMAIN fs0 => rs.fs[p] # fs0[p])}

\* C26: after a generator run every <name>.xml file created or changed holds
\* the header and one root element, there are no more such files than
\* records counted in generated_count, and the file of a record that cannot
\* be built or serialized, when no other record of the run has its name, is
\* as it was before the run.
C26_FilesCompleteOrUntouched ==
  (kind \in Fallback /\ Done /\ idx >= 1)
  => /\ \A p \in ChangedXml : rs.fs[p].decl /\ Len(rs.fs[p].body) = 1
     /\ Cardinality(ChangedXml) <= rs.generated_count
     /\ \A i \in 1..(idx - 1) :
          (/\ IsDict(Records[i]) /\ Malformed(Records[i])
           /\ \A j \in 1..(idx - 1) : RecordPath(j) = RecordPath(i) => Malformed(Records[j]))
          => RecordPath(i) \notin ChangedXml

(***************************************************************************)
(* Properties of the root a validator run reads.                           *)
(***************************************************************************)
\* C27: the structure check reports as missing exactly the required kind
\* directories that are missing below the directory given by --output, and
\* the compatibility scan reports a Mendix 11+ feature exactly for the files
\* of the scanned kind directories below it that hold one.
C27_ReadsOnlyOutputRoot ==
  Summarized
  => LET structure == tally.results[1].issues
         missing == {structure[i][2] :
                       i \in {n \in 1..Len(structure) :
                                structure[n][1] = "Missing required directory"}} \ {"config"}
         scanned == {p \in DOMAIN fs0 :
                       /\ IsXmlPath(p)
                       /\ p[1] \in {SubDir(args.output, k) :
                                      k \in {"domain-model", "microflows", "security", "pages",
                                             "workflows"}}}
         flagged(p) == \E t \in content(fs0[p].body) :
                         LowerOccurrences(t) \cap {"workflowendedusertask", "view entities",
                                                   "view entity", "viewentity"} # {}
         names(p, issue) == Len(issue) > Len(p[2]) /\ SubSeq(issue, 1, Len(p[2])) = p[2]
     IN /\ missing = {SubDir("output", k) :
                        k \in {r \in {"domain-model", "enumerations", "microflows", "security"} :
                                 SubDir(args.output, r) \notin dirs}}
        /\ args.comprehensive
             => LET compatibility == tally.results[5].issues
                IN /\ \A i \in 1..Len(compatibility) :
                        \E p \in scanned : flagged(p) /\ names(p, compatibility[i])
                   /\ \A p \in scanned : flagged(p)
                        => \E i \in 1..Len(compatibility) : names(p, compatibility[i])

(***************************************************************************)
(* Properties of a run whose configuration holds no record of its kind.    *)
(***************************************************************************)
\* C28: when the file at the requested path parses to a mapping that lacks
\* the key of the generator's kind, or holds an empty value under it, the
\* run writes no file at all, neither from the built-in records nor a
\* summary, and ends with status 0.
C28_NoFallbackWhenKeyLacks ==
  (/\ kind \in Generators /\ Done
   /\ requested.st = "parsed" /\ IsDict(requested.val)
   /\ Has(requested.val, ConfigKey(kind)) => ~Truthy(Item(requested.val, ConfigKey(kind))))
  => /\ rs.touched = {}
     /\ rs.fs = fs0
     /\ exit_code = 0

(***************************************************************************)
(* Runs of generate-domain-model.py and of generate-enumerations.py, each  *)
(* over its built-in records, one after the other into one output root.    *)
(***************************************************************************)
InitRuns ==
  /\ kind = "runs"
  /\ ran = <<>>
  /\ fs0 = <<>>
  /\ rs = RunState(fs0)
  /\ requested = Missing
  /\ alternatives = [i \in 1..3 |-> Missing]
  /\ dirs = {}
  /\ pc = "idle"
  /\ config = PyNone
  /\ opened = <<>>
  /\ idx = 0
  /\ exit_code = -1
  /\ clock = 0
  /\ args = [output |-> "output", comprehensive |-> FALSE, verbose |-> FALSE]
  /\ tally = NoTally
  /\ archive = NoArchive
  /\ position = <<>>
  /\ taken = <<>>
  /\ IdleBuild

\* main of generate-domain-model.py over the files the earlier runs left
RunDomainModel ==
  /\ kind = "runs" /\ Len(ran) < MaxSequence
  /\ rs' = domain_run_from(RunState(rs.fs), 1)
  /\ dirs' = dirs \cup {DomainDir, EnumDir}
  /\ ran' = Append(ran, "domain-model")
  /\ UNCHANGED <<kind, requested, alternatives, fs0, pc, config, opened, idx, exit_code, clock,
                 args, tally, archive, position, taken>>
  /\ UNCHANGED buildVars

\* main of generate-enumerations.py, no configuration file found
RunEnumerations ==
  /\ kind = "runs" /\ Len(ran) < MaxSequence
  /\ LET loaded == load_config("enumerations", requested, alternatives)
     IN rs' = run_from("enumerations", RunState(rs.fs),
                       Items(Item(loaded.val, ConfigKey("enumerations"))), 1, clock)
  /\ dirs' = dirs \cup {OutputDir("enumerations")}
  /\ ran' = Append(ran, "enumerations")
  /\ UNCHANGED <<kind, requested, alternatives, fs0, pc, config, opened, idx, exit_code, clock,
                 args, tally, archive, position, taken>>
  /\ UNCHANGED buildVars

NextRuns == RunDomainModel \/ RunEnumerations

SpecRuns == InitRuns /\ [][NextRuns]_vars

(***************************************************************************)
(* Properties of runs into one output root.                                *)
(***************************************************************************)
\* the files each of the two generators writes into an empty output root
AloneFiles ==
  [domain |-> domain_run_from(RunState(<<>>), 1).fs,
   enumerations |-> run_from("enumerations", RunState(<<>>),
                             Items(Item(get_default_config("enumerations"), "enumerations")),
                             1, 0).fs]

\* C29: after any sequence of runs of the two generators, every .xml file
\* under enumerations/ holds what the last run that writes its name writes,
\* every file a run wrote is still there, and the names both generators
\* write are WorkflowStage, ReportFormat and AuditActionType, for which the
\* two write different content.
C29_LastWriterWins ==
  kind = "runs"
  => LET alone == AloneFiles
         written(g) == IF g = "domain-model" THEN alone.domain ELSE alone.enumerations
         both == {p \in DOMAIN alone.domain : p \in DOMAIN alone.enumerations}
     IN /\ \A p \in DOMAIN rs.fs :
             (p[1] = EnumDir /\ IsXmlPath(p))
             => LET writers == {i \in 1..Len(ran) : p \in DOMAIN written(ran[i])}
                IN /\ writers # {}
                   /\ \E i \in writers :
                        /\ \A j \in writers : j <= i
                        /\ rs.fs[p] = written(ran[i])[p]
        /\ \A i \in 1..Len(ran) : DOMAIN written(ran[i]) \subseteq DOMAIN rs.fs
        /\ both = {XmlPath(EnumDir, PyStr(<<n>>)) :
                     n \in {"WorkflowStage", "ReportFormat", "AuditActionType"}}
        /\ \A p \in both : alone.domain[p] # alone.enumerations[p]

\* both generators ran, the domain-model generator last, and WorkflowStage.xml
\* holds its content and not that of the enumerations generator
C29_Witness ==
  /\ kind = "runs" /\ Len(ran) >= 2
  /\ ran[Len(ran)] = "domain-model" /\ ran[Len(ran) - 1] = "enumerations"
  /\ LET p == XmlPath(EnumDir, PyStr(<<"WorkflowStage">>))
         alone == AloneFiles
     IN /\ rs.fs[p] = alone.domain[p]
        /\ rs.fs[p] # alone.enumerations[p]

(***************************************************************************)
(* Properties of the validation report.                                    *)
(***************************************************************************)
\* C30: the report of a failed run with --verbose holds one issue line for
\* every issue counted in the total, those of the compatibility scan
\* included.
C30_ReportListsEveryIssue ==
  (Summarized /\ args.verbose /\ exit_code = 1)
  => LET report == rs.fs[report_file(args.output)].body
         issue_lines == {n \in 1..Len(report) :
                           report[n].text # <<>> /\ report[n].text[1] = "  * "}
     IN Cardinality(issue_lines) = tally.total_issues
====
